---- MODULE Spec2Model ----
(***************************************************************************)
(* Edge gateway of KMN-Chat (Cloudflare Worker).  The model covers the     *)
(* process-wide models cache with its list-models handler and the chat     *)
(* relay with its deadline timer, as written in the worker source.         *)
(*                                                                         *)
(* Every inbound request is one task that runs synchronously between two   *)
(* awaits; an action of the model is one such synchronous stretch.         *)
(***************************************************************************)
EXTENDS Integers, Sequences, FiniteSets, TLC

(***************************************************************************)
(* Bounds of the model.                                                    *)
(***************************************************************************)
NumReqs == 2        \* requests in a run
MaxShort == 1       \* 1 ms clock steps before and after the long one
MaxData == 2        \* longest upstream data array
ShortTtl == 1       \* a configured MODELS_CACHE_TTL_MS, besides unset and "0"
MaxChunks == 2      \* chunks the provider streams in answer to one chat call
NumRelays == 1      \* requests in a run that follows a relay's stream or every route

(***************************************************************************)
(* Program constants.                                                      *)
(***************************************************************************)
DEFAULT_MODELS_CACHE_TTL_MS == 300000
MAX_PROMPT_CHARS == 8000
CHAT_TIMEOUT_MS == 30000

Reqs == 1..NumReqs

\* The requests of the runs that follow a chat call to the end of its stream,
\* or that take any route of the gateway.
Relays == 1..NumRelays

(***************************************************************************)
(* JavaScript values.  A string is a TLA+ string; undefined is a marker    *)
(* string no input uses.  Objects are records; a field that is absent is   *)
(* absent from the record's domain.                                        *)
(***************************************************************************)
Undefined == "<undefined>"

Has(obj, key) == key \in DOMAIN obj

\* JavaScript truthiness of a string-or-undefined value.
Truthy(v) == v # Undefined /\ v # ""

JsNull == [type |-> "null"]
JsUndefined == [type |-> "undefined"]
JsArray(items) == [type |-> "array", items |-> items]

(***************************************************************************)
(* Environment bindings.                                                   *)
(***************************************************************************)
\* env.MODELS_CACHE_TTL_MS: unset, or a string holding a decimal number.
EnvTtlValues ==
    {JsUndefined} \cup {[type |-> "string", num |-> n] : n \in {0, ShortTtl}}

\* Number(env.MODELS_CACHE_TTL_MS || DEFAULT_MODELS_CACHE_TTL_MS): a non-empty
\* string is truthy whatever number it spells.
TtlOf(v) == IF v.type = "string" THEN v.num ELSE DEFAULT_MODELS_CACHE_TTL_MS

(***************************************************************************)
(* The upstream /models answer.                                            *)
(***************************************************************************)
\* One element of the upstream data array.  The entry with neither field
\* also stands for a null element: m?.id and m?.name are undefined for both.
Entries ==
    { [id |-> "a", name |-> "A"],
      [id |-> "b", name |-> Undefined],
      [id |-> "b", name |-> ""],
      [id |-> Undefined, name |-> "A"],
      [id |-> "", name |-> "A"],
      [id |-> Undefined, name |-> Undefined] }

SeqsUpTo(S, n) == UNION {[1..k -> S] : k \in 0..n}

\* The data field of the parsed body: absent, not an array, or an array.
DataValues ==
    {JsUndefined, [type |-> "object"]}
        \cup {JsArray(items) : items \in SeqsUpTo(Entries, MaxData)}

\* fetch rejects | status not ok | ok with a body res.json() rejects | ok with JSON
ModelsResults ==
    {[net |-> "reject"], [net |-> "notok"], [net |-> "ok", json |-> "throws"]}
        \cup {[net |-> "ok", json |-> "parsed", data |-> d] : d \in DataValues}

\* The answers the runs with a changing upstream move between: every failure,
\* an array with no valid entry, and two different valid catalogs.
FewData ==
    { JsArray(<< >>),
      JsArray(<< [id |-> "a", name |-> "A"] >>),
      JsArray(<< [id |-> "b", name |-> Undefined], [id |-> "a", name |-> "A"] >>) }

FewResults ==
    {[net |-> "reject"], [net |-> "notok"], [net |-> "ok", json |-> "throws"]}
        \cup {[net |-> "ok", json |-> "parsed", data |-> d] : d \in FewData}

NoResult == [net |-> "none"]

(***************************************************************************)
(* Pure parts of handleModels.                                             *)
(***************************************************************************)
fallbackModels ==
    << [id |-> "openai/gpt-4o-mini", name |-> "GPT-4o mini"],
       [id |-> "google/gemini-2.0-flash-001", name |-> "Gemini 2.0 Flash"],
       [id |-> "anthropic/claude-3.5-haiku", name |-> "Claude 3.5 Haiku"] >>

\* Mutant: the name falls back to the id only when it is missing (??).
ProjectEntry_Nullish(m) == [id |-> m.id, name |-> IF m.name # Undefined THEN m.name ELSE m.id]

\* .map((m) => ({ id: m?.id, name: m?.name || m?.id }))
ProjectEntry(m) == [id |-> m.id, name |-> IF Truthy(m.name) THEN m.name ELSE m.id]

\* Mutant: the filter tests for a present id, not for a truthy one.
KeepEntry_Defined(m) == m.id # Undefined

\* .filter((m) => m.id)
KeepEntry(m) == Truthy(m.id)

\* (Array.isArray(data?.data) ? data.data : []).map(...).filter(...)
ProjectModels(data) ==
    LET items == IF data.type = "array" THEN data.items ELSE <<>>
        mapped == [k \in 1..Len(items) |-> ProjectEntry(items[k])]
    IN  SelectSeq(mapped, KeepEntry)

\* Mutant: the age comparison is turned round.
CacheFresh_Inverted(cache, now, ttl) == cache.data.type # "null" /\ now - cache.at > ttl

\* Mutant: a snapshot whose age equals the ttl is still served.
CacheFresh_AtLimit(cache, now, ttl) == cache.data.type # "null" /\ now - cache.at <= ttl

\* modelsCache.data && now - modelsCache.at < ttl
CacheFresh(cache, now, ttl) == cache.data.type # "null" /\ now - cache.at < ttl

\* Mutant: the list is stored into the existing object, the timestamp is not.
CacheReplace_DataOnly(cache, now, models) == [at |-> cache.at, data |-> JsArray(models)]

\* Mutant: the snapshot is stamped a millisecond ahead of the sampled time.
CacheReplace_Ahead(cache, now, models) == [at |-> now + 1, data |-> JsArray(models)]

\* modelsCache = { at: now, data: models }
CacheReplace(cache, now, models) == [at |-> now, data |-> JsArray(models)]

NoResp == [status |-> 0, body |-> [unset |-> TRUE]]

\* Mutant: the missing credential is reported as a bad request.
ConfigErrorResp_BadRequest ==
    [status |-> 400, body |-> [error |-> "OPEN_ROUTER_API_KEY missing", code |-> "CONFIG_ERROR"]]

ConfigErrorResp ==
    [status |-> 500, body |-> [error |-> "OPEN_ROUTER_API_KEY missing", code |-> "CONFIG_ERROR"]]
CachedResp(cache) == [status |-> 200, body |-> [models |-> cache.data.items, cached |-> TRUE]]
FreshResp(models) == [status |-> 200, body |-> [models |-> models, cached |-> FALSE]]

\* Mutant: the fallback answer carries cached=false as well.
FallbackResp_Cached ==
    [status |-> 200, body |-> [models |-> fallbackModels, fallback |-> TRUE, cached |-> FALSE]]

FallbackResp == [status |-> 200, body |-> [models |-> fallbackModels, fallback |-> TRUE]]

\* Mutant: the catch block answers like the other fallback paths.
DegradedResp_Unflagged ==
    [status |-> 200, body |-> [models |-> fallbackModels, fallback |-> TRUE]]

DegradedResp ==
    [status |-> 200, body |-> [models |-> fallbackModels, fallback |-> TRUE, degraded |-> TRUE]]

\* Mutant: the !models.length test is missing.
ParsedResp_NoLengthTest(data) == FreshResp(ProjectModels(data))

\* What the handler answers once the body is parsed (lines 55-66).
ParsedResp(data) ==
    IF Len(ProjectModels(data)) = 0 THEN FallbackResp ELSE FreshResp(ProjectModels(data))

(***************************************************************************)
(* Strings of a chat request.  A string is a sequence of runs, a run being *)
(* n >= 1 copies of one character and neighbouring runs having different   *)
(* characters, so that a prompt of 8001 characters is a small value.       *)
(***************************************************************************)
Str(runs) == [type |-> "string", runs |-> runs]
Run(c, n) == [ch |-> c, n |-> n]

RECURSIVE Merge(_)
Merge(rs) ==
    IF Len(rs) <= 1 THEN rs
    ELSE LET h == Head(rs)
             rest == Merge(Tail(rs))
         IN  IF h.ch = Head(rest).ch
             THEN << Run(h.ch, h.n + Head(rest).n) >> \o Tail(rest)
             ELSE << h >> \o rest

\* The string spelled by a sequence of characters.
Chars(cs) == Str(Merge([k \in 1..Len(cs) |-> Run(cs[k], 1)]))

\* n copies of c.
Repeat(c, n) == IF n = 0 THEN Str(<< >>) ELSE Str(<< Run(c, n) >>)

Concat(a, b) == Str(Merge(a.runs \o b.runs))

EmptyString == Str(<< >>)

\* s.length
RECURSIVE RunsLength(_)
RunsLength(rs) == IF rs = << >> THEN 0 ELSE Head(rs).n + RunsLength(Tail(rs))

StrLength(s) == RunsLength(s.runs)

WhiteSpace == {" ", "\t", "\n"}

RECURSIVE TrimStart(_)
TrimStart(rs) ==
    IF rs # << >> /\ Head(rs).ch \in WhiteSpace THEN TrimStart(Tail(rs)) ELSE rs

RECURSIVE TrimEnd(_)
TrimEnd(rs) ==
    IF rs # << >> /\ rs[Len(rs)].ch \in WhiteSpace
    THEN TrimEnd(SubSeq(rs, 1, Len(rs) - 1))
    ELSE rs

\* s.trim()
Trim(s) == Str(TrimEnd(TrimStart(s.runs)))

UpperLetters ==
    << "A", "B", "C", "D", "E", "F", "G", "H", "I", "J", "K", "L", "M",
       "N", "O", "P", "Q", "R", "S", "T", "U", "V", "W", "X", "Y", "Z" >>
LowerLetters ==
    << "a", "b", "c", "d", "e", "f", "g", "h", "i", "j", "k", "l", "m",
       "n", "o", "p", "q", "r", "s", "t", "u", "v", "w", "x", "y", "z" >>

LowerChar(c) ==
    IF \E k \in 1..Len(UpperLetters) : UpperLetters[k] = c
    THEN LowerLetters[CHOOSE k \in 1..Len(UpperLetters) : UpperLetters[k] = c]
    ELSE c

\* s.toLowerCase()
ToLowerCase(s) ==
    Str(Merge([k \in 1..Len(s.runs) |-> Run(LowerChar(s.runs[k].ch), s.runs[k].n)]))

\* v || d, for v a string or undefined
OrElse(v, d) == IF v.type = "string" /\ v.runs # << >> THEN v ELSE d

(***************************************************************************)
(* Pure parts of handleChat.                                               *)
(***************************************************************************)
\* body?.field of the parsed request body; a body that is no object has none.
Field(body, key) == body.value[key]

\* String(body?.model || "").trim()
ChatModel(body) == Trim(OrElse(Field(body, "model"), EmptyString))

\* String(body?.prompt || "").trim()
ChatPrompt(body) == Trim(OrElse(Field(body, "prompt"), EmptyString))

\* String(body?.persona || "default").trim()
ChatPersona(body) ==
    Trim(OrElse(Field(body, "persona"), Chars(<< "d", "e", "f", "a", "u", "l", "t" >>)))

\* Mutant: the limit itself is refused.
TooLong_AtLimit(prompt) == StrLength(prompt) >= MAX_PROMPT_CHARS

\* prompt.length > MAX_PROMPT_CHARS
TooLong(prompt) == StrLength(prompt) > MAX_PROMPT_CHARS

\* Mutant: the prompt is looked at before the model.
Validate_PromptFirst(body) ==
    IF body.parse = "throws" THEN "Invalid JSON"
    ELSE IF ChatPrompt(body) = EmptyString THEN "prompt is required"
    ELSE IF ChatModel(body) = EmptyString THEN "model is required"
    ELSE IF TooLong(ChatPrompt(body)) THEN "prompt exceeds 8000 chars"
    ELSE "ok"

\* Mutant: the test for an empty prompt is missing.
Validate_NoPromptTest(body) ==
    IF body.parse = "throws" THEN "Invalid JSON"
    ELSE IF ChatModel(body) = EmptyString THEN "model is required"
    ELSE IF TooLong(ChatPrompt(body)) THEN "prompt exceeds 8000 chars"
    ELSE "ok"

\* Lines 78-93: the error the request is refused with, "ok" when it is not.
Validate(body) ==
    IF body.parse = "throws" THEN "Invalid JSON"
    ELSE IF ChatModel(body) = EmptyString THEN "model is required"
    ELSE IF ChatPrompt(body) = EmptyString THEN "prompt is required"
    ELSE IF TooLong(ChatPrompt(body)) THEN "prompt exceeds 8000 chars"
    ELSE "ok"

SalesPrompt ==
    "You are a sales assistant. Be persuasive, concise, and CTA-driven while staying honest."
TutorPrompt ==
    "You are a tutor. Explain step-by-step, ask check questions, and adapt to learner level."
SupportPrompt == "You are a customer support agent. Be calm, precise, and solution-first."
DefaultPrompt == "You are Ko Paing style assistant: concise, practical, safe."

Sales == Chars(<< "s", "a", "l", "e", "s" >>)
Tutor == Chars(<< "t", "u", "t", "o", "r" >>)
Support == Chars(<< "s", "u", "p", "p", "o", "r", "t" >>)
Default == Chars(<< "d", "e", "f", "a", "u", "l", "t" >>)

\* Mutant: the lookup compares the persona as given.
personaPrompt_CaseSensitive(persona) ==
    LET p == OrElse(persona, Default)
    IN  CASE p = Sales -> SalesPrompt
          [] p = Tutor -> TutorPrompt
          [] p = Support -> SupportPrompt
          [] OTHER -> DefaultPrompt

personaPrompt(persona) ==
    LET p == ToLowerCase(OrElse(persona, Default))
    IN  CASE p = Sales -> SalesPrompt
          [] p = Tutor -> TutorPrompt
          [] p = Support -> SupportPrompt
          [] OTHER -> DefaultPrompt

\* The JSON body of the outbound POST (lines 106-116).
ChatPayload(body) ==
    [ model |-> ChatModel(body),
      stream |-> TRUE,
      system |-> personaPrompt(ChatPersona(body)),
      user |-> ChatPrompt(body) ]

ErrorResp(status, error) == [status |-> status, body |-> [error |-> error]]

(***************************************************************************)
(* Chat request bodies.                                                    *)
(***************************************************************************)
BodyOf(model, prompt, persona) ==
    [parse |-> "ok", value |-> [model |-> model, prompt |-> prompt, persona |-> persona]]

BadJson == [parse |-> "throws"]

ModelValues == {JsUndefined, EmptyString, Repeat(" ", 2), Chars(<< "m" >>)}

PromptValues ==
    { JsUndefined, EmptyString, Repeat(" ", 2), Chars(<< "h", "i" >>),
      Repeat("x", MAX_PROMPT_CHARS), Repeat("x", MAX_PROMPT_CHARS + 1),
      Concat(Repeat(" ", 1), Concat(Repeat("x", MAX_PROMPT_CHARS), Repeat("\n", 1))),
      Concat(Repeat("x", MAX_PROMPT_CHARS - 1), Repeat(" ", 2)) }

PersonaValues ==
    { JsUndefined, EmptyString, Repeat(" ", 1), Default, Sales, Tutor, Support,
      Chars(<< "S", "A", "L", "E", "S" >>), Chars(<< "T", "u", "t", "o", "r" >>),
      Chars(<< " ", "S", "u", "p", "p", "o", "r", "t", " " >>),
      Chars(<< "p", "i", "r", "a", "t", "e" >>),
      Chars(<< "s", "a", "l", "e", "s", "m", "a", "n" >>) }

\* Every model with a blank, a short and a too long prompt; every prompt with
\* a model; every persona on a request that passes the checks, and two of them
\* on a second such request.
ChatBodies ==
    {BadJson}
        \cup {BodyOf(m, p, JsUndefined) :
                m \in ModelValues,
                p \in {EmptyString, Chars(<< "h", "i" >>), Repeat("x", MAX_PROMPT_CHARS + 1)}}
        \cup {BodyOf(Chars(<< "m" >>), p, JsUndefined) : p \in PromptValues}
        \cup {BodyOf(Chars(<< "m" >>), Chars(<< "h", "i" >>), a) : a \in PersonaValues}
        \cup {BodyOf(Chars(<< "m" >>), Repeat("x", MAX_PROMPT_CHARS), a) :
                a \in {Sales, Chars(<< "p", "i", "r", "a", "t", "e" >>)}}

\* The requests of the runs that follow the relay past its checks.
FewBodies == {BadJson, BodyOf(Chars(<< "m" >>), Chars(<< "h", "i" >>), JsUndefined)}

\* The body of an error answer of the provider.
Diagnostic == "{\"error\":{\"message\":\"rate limited: key sk-or-123\"}}"

\* What the provider answers to the POST: a status, with or without a body.
\* 204 is a null body status: a Response of that status cannot be given a body.
\* The provider's own errors include the statuses the relay uses for its own.
ChatAnswers ==
    { [status |-> 200, body |-> TRUE, text |-> "data: {}\n\n"],
      [status |-> 200, body |-> FALSE, text |-> ""],
      [status |-> 204, body |-> FALSE, text |-> ""],
      [status |-> 429, body |-> TRUE, text |-> Diagnostic],
      [status |-> 400, body |-> TRUE, text |-> Diagnostic],
      [status |-> 500, body |-> TRUE, text |-> Diagnostic],
      [status |-> 502, body |-> FALSE, text |-> ""],
      [status |-> 504, body |-> TRUE, text |-> Diagnostic] }

NullBodyStatus == {101, 204, 205, 304}

\* upstream.ok
Ok(status) == status >= 200 /\ status <= 299

\* The chunks of an event stream.
Chunks == {"data: {}\n\n", "data: [DONE]\n\n"}

\* Mutant: the timeout is recognised by the name of an AbortError, which the
\* string the timer aborts with does not have.
CatchResp_ByName(text) ==
    IF text = "AbortError" THEN ErrorResp(504, "upstream timeout")
    ELSE ErrorResp(502, "network failure")

\* Lines 136-140: the catch block, for a thrown value whose text is `text`;
\* of the texts of the model only the abort reason includes "upstream_timeout".
CatchResp(text) ==
    IF text = "upstream_timeout" THEN ErrorResp(504, "upstream timeout")
    ELSE ErrorResp(502, "network failure")

\* json({ error: "upstream error", status }, status || 502), which throws for a
\* null body status, inside the try block.
UpstreamErrorResp(status) ==
    IF status \in NullBodyStatus
    THEN CatchResp("Response with null body status cannot have body")
    ELSE [ status |-> IF status = 0 THEN 502 ELSE status,
           body |-> [error |-> "upstream error", status |-> status] ]

\* new Response(upstream.body, { status: 200, ... })
StreamResp == [status |-> 200, body |-> [stream |-> "upstream.body"]]

\* Mutant: the relay keeps the latest chunk only and hands that one on.
Forward_LatestOnly(pipe, client) ==
    [pipe |-> << >>, client |-> Append(client, pipe[Len(pipe)])]

\* One turn of the pump between upstream.body and the client: the oldest chunk
\* read from upstream is written to the client.
Forward(pipe, client) == [pipe |-> Tail(pipe), client |-> Append(client, Head(pipe))]

NoChat ==
    [ request |-> BadJson, timer |-> "unset", armedAt |-> 0, fetch |-> "none",
      payload |-> [none |-> TRUE], status |-> 0, text |-> "", logged |-> "",
      stream |-> "none", ended |-> FALSE, source |-> << >>, pipe |-> << >>,
      client |-> << >> ]

(***************************************************************************)
(* Response headers.                                                       *)
(***************************************************************************)
\* Mutant: the request's Origin is echoed whenever an allow-list is configured.
corsHeaders_Echo(requestOrigin, allowed) ==
    LET o == IF Truthy(requestOrigin) THEN requestOrigin ELSE "*"
        a == IF Truthy(allowed) THEN allowed ELSE "*"
    IN  [ allowOrigin |-> IF a = "*" THEN "*" ELSE o,
          allowMethods |-> "GET,POST,OPTIONS",
          allowHeaders |-> "content-type",
          vary |-> "Origin" ]

\* corsHeaders(request, env), of the request's Origin header and
\* env.ALLOWED_ORIGIN, each a string or undefined.
corsHeaders(requestOrigin, allowed) ==
    LET o == IF Truthy(requestOrigin) THEN requestOrigin ELSE "*"
        a == IF Truthy(allowed) THEN allowed ELSE "*"
    IN  [ allowOrigin |-> IF a = "*" THEN "*" ELSE IF o = a THEN a ELSE "null",
          allowMethods |-> "GET,POST,OPTIONS",
          allowHeaders |-> "content-type",
          vary |-> "Origin" ]

NoHeaders == [unset |-> TRUE]

(***************************************************************************)
(* Pure parts of the store handlers.                                       *)
(***************************************************************************)
StoreGets == {"builderGet", "memoryGet", "analyticsGet"}
StorePosts == {"builderPost", "memoryPost", "analyticsPost"}

\* s.slice(0, n)
RECURSIVE SliceRuns(_, _)
SliceRuns(rs, n) ==
    IF rs = << >> \/ n = 0 THEN << >>
    ELSE IF Head(rs).n >= n THEN << Run(Head(rs).ch, n) >>
    ELSE << Head(rs) >> \o SliceRuns(Tail(rs), n - Head(rs).n)

Slice(str, n) == Str(SliceRuns(str.runs, n))

Guest == Chars(<< "g", "u", "e", "s", "t" >>)

\* The key of a store request -- the bot of the builder state, the userId of
\* the memory and of an analytics event -- as the handler sends it on.
StoreKey(endpoint, key) ==
    CASE endpoint \in {"builderGet", "builderPost"} -> Trim(OrElse(key, Default))
      [] endpoint \in {"memoryGet", "memoryPost"} -> Trim(OrElse(key, Guest))
      [] endpoint = "analyticsPost" -> Slice(OrElse(key, Guest), 128)
      [] OTHER -> EmptyString

\* body?.state, body?.memory || {}, body?.meta || {}
StoreValue(endpoint, payload) ==
    IF endpoint = "builderPost" \/ payload = "present" THEN payload ELSE "{}"

\* The request of a store handler: the query of a GET, the parsed body of a
\* POST; key is a string or undefined, payload is "absent" or "present".
StoreRequest(key, payload) == [parse |-> "ok", value |-> [key |-> key, payload |-> payload]]

StoreKeys == {JsUndefined, Repeat(" ", 2), Chars(<< "k" >>)}

StoreRequests ==
    {BadJson} \cup {StoreRequest(k, v) : k \in StoreKeys, v \in {"absent", "present"}}

\* Lines 175-177: the check of handleBuilderStatePost, the only store handler
\* that has one.
StoreValidate(endpoint, request) ==
    IF request.parse = "throws" THEN "invalid json"
    ELSE IF /\ endpoint = "builderPost"
            /\ \/ StoreKey(endpoint, request.value.key) = EmptyString
               \/ request.value.payload = "absent"
         THEN "bot/state required"
    ELSE "ok"

\* What goes to the store.
StorePayload(endpoint, request) ==
    [ key |-> StoreKey(endpoint, request.value.key),
      value |-> IF endpoint \in StorePosts
                THEN StoreValue(endpoint, request.value.payload) ELSE "none" ]

\* A row of the store, with the columns the handlers read.
Row(type, node) ==
    [ state_json |-> "state", memory_json |-> "memory", event_type |-> type,
      user_id |-> "u", node_id |-> node ]

\* The store's answer: the fetch rejects, or resolves with a status and a
\* body that is rows, an error object, or no JSON.  A parsed object is a
\* record of its JSON text and of the fields a handler reads.
StoreAnswers ==
    { [net |-> "reject"],
      [net |-> "ok", json |-> "parsed", data |-> JsArray(<< >>)],
      [net |-> "ok", json |-> "parsed",
       data |-> JsArray(<< Row("message", "n1"), Row("dropoff", "") >>)],
      [net |-> "ok", json |-> "throws"],
      [net |-> "notok", json |-> "parsed", data |-> [type |-> "object",
                 json |-> "{\"message\":\"permission denied for table\"}"]],
      [net |-> "notok", json |-> "throws"] }

\* Mutant: an unconfigured store is a server error.
StoreNotConfiguredResp_Hard ==
    [status |-> 500, body |-> [ok |-> FALSE, code |-> "SUPABASE_NOT_CONFIGURED"]]

StoreNotConfiguredResp ==
    [status |-> 200, body |-> [ok |-> FALSE, code |-> "SUPABASE_NOT_CONFIGURED"]]

\* json({ ok: false, error }, status), for an error that is a string or the
\* JSON text JSON.stringify writes for an object.
FailResp(status, error) == [status |-> status, body |-> [ok |-> FALSE, error |-> error]]

\* {}
EmptyObject == [type |-> "object", json |-> "{}"]

\* Lines 260-269: the summary of handleAnalyticsSummaryGet.
Summary(rows) ==
    LET nodeOf(row) == IF Truthy(row.node_id) THEN row.node_id ELSE "unknown"
        nodes == {nodeOf(rows[k]) : k \in 1..Len(rows)}
        count(type) == Cardinality({k \in 1..Len(rows) : rows[k].event_type = type})
    IN  [ messages |-> count("message"),
          users |-> Cardinality({rows[k].user_id : k \in 1..Len(rows)}),
          dropoff |-> count("dropoff"),
          byNode |-> [ n \in nodes |->
                        Cardinality({k \in 1..Len(rows) : nodeOf(rows[k]) = n}) ] ]

\* What a store handler answers once the store's body is read.
StoreResp(endpoint, answer) ==
    LET rows == IF answer.json = "parsed" /\ answer.data.type = "array"
                THEN answer.data.items ELSE << >>
    IN  IF endpoint \in StoreGets
        THEN IF answer.json = "throws" THEN FailResp(500, "Unexpected token")
             ELSE IF answer.net = "notok" THEN FailResp(500, answer.data.json)
             ELSE CASE endpoint = "builderGet" ->
                        [ status |-> 200,
                          body |-> [ ok |-> TRUE,
                                     state |-> IF rows # << >> THEN rows[1].state_json
                                               ELSE "null" ] ]
                    [] endpoint = "memoryGet" ->
                        [ status |-> 200,
                          body |-> [ ok |-> TRUE,
                                     memory |-> IF rows # << >> THEN rows[1].memory_json
                                                ELSE "{}" ] ]
                    [] OTHER ->
                        [status |-> 200, body |-> [ok |-> TRUE, summary |-> Summary(rows)]]
        ELSE IF endpoint = "analyticsPost"
        THEN IF answer.net = "notok"
             THEN FailResp(500, IF answer.json = "parsed" THEN answer.data.json
                                ELSE "<html>bad gateway</html>")
             ELSE [status |-> 200, body |-> [ok |-> TRUE]]
        ELSE LET data == IF answer.json = "parsed" THEN answer.data ELSE EmptyObject
             IN  IF answer.net = "notok" THEN FailResp(500, data.json)
                 ELSE [status |-> 200, body |-> [ok |-> TRUE, data |-> data]]

(***************************************************************************)
(* Pure parts of handleAutomationTrigger.                                  *)
(***************************************************************************)
TriggerBody(text, persona) ==
    [ parse |-> "ok",
      value |-> [text |-> text, model |-> JsUndefined, persona |-> persona,
                 userId |-> JsUndefined] ]

\* A text within the prompt limit of the chat relay and one beyond it.
TriggerBodies ==
    {BadJson}
        \cup {TriggerBody(t, JsUndefined) :
                t \in {JsUndefined, Repeat(" ", 2), Chars(<< "h", "i" >>),
                       Repeat("x", MAX_PROMPT_CHARS + 1)}}
        \cup {TriggerBody(Chars(<< "h", "i" >>), Sales)}

\* String(body?.text || '').trim()
TriggerText(body) == Trim(OrElse(Field(body, "text"), EmptyString))

\* String(body?.model || 'openai/gpt-4o-mini').trim()
TriggerModel(body) ==
    Trim(OrElse(Field(body, "model"),
                Chars(<< "o", "p", "e", "n", "a", "i", "/", "g", "p", "t", "-", "4", "o",
                         "-", "m", "i", "n", "i" >>)))

\* String(body?.persona || 'support').trim()
TriggerPersona(body) == Trim(OrElse(Field(body, "persona"), Support))

\* Mutant: the trigger applies the prompt cap of the chat relay.
TriggerValidate_Capped(body, hasCredential) ==
    IF body.parse = "throws" THEN "invalid json"
    ELSE IF TriggerText(body) = EmptyString THEN "text required"
    ELSE IF StrLength(TriggerText(body)) > MAX_PROMPT_CHARS THEN "text too long"
    ELSE IF ~hasCredential THEN "OPEN_ROUTER_API_KEY missing"
    ELSE "ok"

\* Lines 277-283: the error the trigger is refused with, "ok" when it is not;
\* the credential is looked at last.
TriggerValidate(body, hasCredential) ==
    IF body.parse = "throws" THEN "invalid json"
    ELSE IF TriggerText(body) = EmptyString THEN "text required"
    ELSE IF ~hasCredential THEN "OPEN_ROUTER_API_KEY missing"
    ELSE "ok"

\* The JSON body of the outbound POST (lines 289-296).
TriggerPayload(body) ==
    [ model |-> TriggerModel(body),
      stream |-> FALSE,
      system |-> personaPrompt(TriggerPersona(body)),
      user |-> TriggerText(body) ]

\* The analytics event of line 306, for the user of line 281:
\* String(body?.userId || 'automation').trim()
TriggerEvent(body) ==
    [ key |-> Trim(OrElse(Field(body, "userId"),
                          Chars(<< "a", "u", "t", "o", "m", "a", "t", "i", "o", "n" >>))),
      value |-> [ textLen |-> StrLength(TriggerText(body)), model |-> TriggerModel(body),
                  persona |-> TriggerPersona(body) ] ]

\* What the provider answers to the POST of the trigger: a status and a body
\* that is a completion, an error object, or no JSON.
TriggerAnswers ==
    { [status |-> 200, json |-> "parsed",
       data |-> [type |-> "object", json |-> "{\"choices\":[...]}", content |-> "hello"]],
      [status |-> 200, json |-> "parsed",
       data |-> [type |-> "object", json |-> "{\"choices\":[]}", content |-> Undefined]],
      [status |-> 200, json |-> "throws"],
      [status |-> 429, json |-> "parsed", data |-> [type |-> "object", json |-> Diagnostic]],
      [status |-> 500, json |-> "throws"] }

\* await upstream.json().catch(() => ({}))
TriggerData(answer) == IF answer.json = "parsed" THEN answer.data ELSE EmptyObject

\* Line 299: json({ ok: false, error: data }, upstream.status || 500), which
\* throws for a null body status, inside the try block.
TriggerErrorResp(status, data) ==
    IF status \in NullBodyStatus
    THEN FailResp(500, "Response with null body status cannot have body")
    ELSE FailResp(IF status = 0 THEN 500 ELSE status, data.json)

\* Lines 300 and 310: data?.choices?.[0]?.message?.content || ''
TriggerOkResp(data) ==
    [ status |-> 200,
      body |-> [ ok |-> TRUE,
                 output |-> IF Has(data, "content") /\ Truthy(data.content)
                            THEN data.content ELSE "" ] ]

NoEdge ==
    [ route |-> "none", request |-> [parse |-> "none"], storeCalls |-> 0,
      storePayload |-> [none |-> TRUE], answer |-> [net |-> "none"],
      payload |-> [none |-> TRUE] ]

(***************************************************************************)
(* State.                                                                  *)
(***************************************************************************)
VARIABLES
    credential,   \* env.OPEN_ROUTER_API_KEY is set
    envTtl,       \* env.MODELS_CACHE_TTL_MS
    allowedOrigin,\* env.ALLOWED_ORIGIN
    supabaseUrl,  \* env.SUPABASE_URL is set
    supabaseKey,  \* env.SUPABASE_ANON_KEY is set
    origin,       \* per task: the Origin header of its request
    modelsCache,  \* the module-level cache { at, data }
    now,          \* Date.now()
    upstream,     \* what the provider answers to GET /models at this moment
    pc,           \* per task: where it is suspended
    kind,         \* per task: "none", "models" or "chat"
    sampled,      \* per task: the `now` constant of handleModels
    res,          \* per task: the upstream response it holds
    resp,         \* per task: the response it returned
    headers,      \* per task: the CORS headers of that response
    edge,         \* per task: the request and calls of a store or trigger handler
    outbound,     \* per task: outbound requests it issued
    changed,      \* history, per task: the upstream answer changed since it started
    chat          \* per task: the request, timer and outbound call of handleChat

vars == << credential, envTtl, allowedOrigin, supabaseUrl, supabaseKey, origin, modelsCache,
           now, upstream, pc, kind, sampled, res, resp, headers, edge, outbound, changed,
           chat >>

\* The bindings, and the request headers, which a handler only reads.
envVars == << credential, envTtl, allowedOrigin, supabaseUrl, supabaseKey, origin >>

\* let modelsCache = { at: 0, data: null }
EmptyCache == [at |-> 0, data |-> JsNull]

\* The state of an isolate in front of a provider with one of `results`.
InitWith(results, caches) ==
    /\ credential \in BOOLEAN
    /\ envTtl \in EnvTtlValues
    /\ allowedOrigin = Undefined
    /\ supabaseUrl = FALSE /\ supabaseKey = FALSE
    /\ origin = [r \in Reqs |-> Undefined]
    /\ headers = [r \in Reqs |-> NoHeaders]
    /\ edge = [r \in Reqs |-> NoEdge]
    /\ modelsCache \in caches
    /\ now = 0
    /\ upstream \in results
    /\ pc = [r \in Reqs |-> "idle"]
    /\ kind = [r \in Reqs |-> "none"]
    /\ sampled = [r \in Reqs |-> 0]
    /\ res = [r \in Reqs |-> NoResult]
    /\ resp = [r \in Reqs |-> NoResp]
    /\ outbound = [r \in Reqs |-> 0]
    /\ changed = [r \in Reqs |-> FALSE]
    /\ chat = [r \in Reqs |-> NoChat]

Init == InitWith(FewResults, {EmptyCache})

(***************************************************************************)
(* handleModels.                                                           *)
(***************************************************************************)
\* A task finishes: it returns `response`, built by json(), htmlResponse() or
\* new Response() with the headers of corsHeaders(request, env).
Finish(r, response) ==
    /\ pc' = [pc EXCEPT ![r] = "done"]
    /\ resp' = [resp EXCEPT ![r] = response]
    /\ headers' = [headers EXCEPT ![r] = corsHeaders(origin[r], allowedOrigin)]
    /\ res' = [res EXCEPT ![r] = NoResult]

\* Mutant: the cache is looked at before the credential.
ModelsStart_CacheFirst(r) ==
    /\ pc[r] = "idle"
    /\ kind' = [kind EXCEPT ![r] = "models"]
    /\ changed' = [changed EXCEPT ![r] = FALSE]
    /\ IF CacheFresh(modelsCache, now, TtlOf(envTtl))
       THEN /\ Finish(r, CachedResp(modelsCache))
            /\ sampled' = [sampled EXCEPT ![r] = now]
            /\ UNCHANGED outbound
       ELSE IF ~credential
       THEN /\ Finish(r, ConfigErrorResp)
            /\ UNCHANGED << sampled, outbound >>
       ELSE /\ sampled' = [sampled EXCEPT ![r] = now]
            /\ pc' = [pc EXCEPT ![r] = "m_fetch"]
            /\ outbound' = [outbound EXCEPT ![r] = @ + 1]
            /\ UNCHANGED << resp, res, headers >>
    /\ UNCHANGED << envVars, edge, chat, modelsCache, now, upstream >>

\* Mutant: a call that finds another one in flight waits for that one's
\* answer and issues no request of its own.
ModelsStart_Coalesced(r) ==
    /\ pc[r] = "idle"
    /\ kind' = [kind EXCEPT ![r] = "models"]
    /\ changed' = [changed EXCEPT ![r] = FALSE]
    /\ IF ~credential
       THEN /\ Finish(r, ConfigErrorResp)
            /\ UNCHANGED << sampled, outbound >>
       ELSE /\ sampled' = [sampled EXCEPT ![r] = now]
            /\ IF CacheFresh(modelsCache, now, TtlOf(envTtl))
               THEN /\ Finish(r, CachedResp(modelsCache))
                    /\ UNCHANGED outbound
               ELSE /\ pc' = [pc EXCEPT ![r] = "m_fetch"]
                    /\ IF \E q \in Reqs : pc[q] \in {"m_fetch", "m_json"}
                       THEN UNCHANGED outbound
                       ELSE outbound' = [outbound EXCEPT ![r] = @ + 1]
                    /\ UNCHANGED << resp, res, headers >>
    /\ UNCHANGED << envVars, edge, chat, modelsCache, now, upstream >>

\* Lines 34-48: credential check, ttl and now, the cache read, the outbound fetch.
ModelsStart(r) ==
    /\ pc[r] = "idle"
    /\ kind' = [kind EXCEPT ![r] = "models"]
    /\ changed' = [changed EXCEPT ![r] = FALSE]
    /\ IF ~credential
       THEN /\ Finish(r, ConfigErrorResp)
            /\ UNCHANGED << sampled, outbound >>
       ELSE /\ sampled' = [sampled EXCEPT ![r] = now]
            /\ IF CacheFresh(modelsCache, now, TtlOf(envTtl))
               THEN /\ Finish(r, CachedResp(modelsCache))
                    /\ UNCHANGED outbound
               ELSE /\ pc' = [pc EXCEPT ![r] = "m_fetch"]
                    /\ outbound' = [outbound EXCEPT ![r] = @ + 1]
                    /\ UNCHANGED << resp, res, headers >>
    /\ UNCHANGED << envVars, edge, chat, modelsCache, now, upstream >>

\* Mutant: the static list is stored when the provider answers with an error.
ModelsFetched_CachesFallback(r, u) ==
    /\ pc[r] = "m_fetch"
    /\ upstream' = u
    /\ changed' = [q \in Reqs |-> changed[q] \/ (u # upstream /\ kind[q] # "none")]
    /\ CASE u.net = "reject" -> Finish(r, DegradedResp) /\ UNCHANGED modelsCache
         [] u.net = "notok" ->
                /\ Finish(r, FallbackResp)
                /\ modelsCache' = CacheReplace(modelsCache, sampled[r], fallbackModels)
         [] OTHER -> /\ pc' = [pc EXCEPT ![r] = "m_json"]
                     /\ res' = [res EXCEPT ![r] = u]
                     /\ UNCHANGED << resp, headers, modelsCache >>
    /\ UNCHANGED << envVars, edge, chat, now, kind, sampled, outbound >>

\* Lines 46-53 and 67-70: the fetch settles with the answer u the provider
\* gives at this moment; the provider's state shows nowhere else.
ModelsFetched(r, u) ==
    /\ pc[r] = "m_fetch"
    /\ upstream' = u
    /\ changed' = [q \in Reqs |-> changed[q] \/ (u # upstream /\ kind[q] # "none")]
    /\ CASE u.net = "reject" -> Finish(r, DegradedResp)
         [] u.net = "notok" -> Finish(r, FallbackResp)
         [] OTHER -> /\ pc' = [pc EXCEPT ![r] = "m_json"]
                     /\ res' = [res EXCEPT ![r] = u]
                     /\ UNCHANGED << resp, headers >>
    /\ UNCHANGED << envVars, edge, chat, modelsCache, now, kind, sampled, outbound >>

\* Mutant: the snapshot is stamped with the time of the write.
ModelsParsed_WriteTime(r) ==
    /\ pc[r] = "m_json"
    /\ IF res[r].json = "throws"
       THEN /\ Finish(r, DegradedResp)
            /\ UNCHANGED modelsCache
       ELSE /\ Finish(r, ParsedResp(res[r].data))
            /\ IF Len(ProjectModels(res[r].data)) = 0
               THEN UNCHANGED modelsCache
               ELSE modelsCache' = CacheReplace(modelsCache, now, ProjectModels(res[r].data))
    /\ UNCHANGED << envVars, edge, chat, now, upstream, kind, sampled, outbound, changed >>

\* Lines 55-70: res.json() settles.
ModelsParsed(r) ==
    /\ pc[r] = "m_json"
    /\ IF res[r].json = "throws"
       THEN /\ Finish(r, DegradedResp)
            /\ UNCHANGED modelsCache
       ELSE /\ Finish(r, ParsedResp(res[r].data))
            /\ IF Len(ProjectModels(res[r].data)) = 0
               THEN UNCHANGED modelsCache
               ELSE modelsCache' =
                        CacheReplace(modelsCache, sampled[r], ProjectModels(res[r].data))
    /\ UNCHANGED << envVars, edge, chat, now, upstream, kind, sampled, outbound, changed >>

(***************************************************************************)
(* The environment.                                                        *)
(***************************************************************************)
\* Date.now() moves on by 1 ms or, once in a run, by a whole default ttl.
TickSteps == {1, DEFAULT_MODELS_CACHE_TTL_MS}

Tick(d) ==
    /\ IF d = 1
       THEN now % DEFAULT_MODELS_CACHE_TTL_MS < MaxShort
       ELSE now < DEFAULT_MODELS_CACHE_TTL_MS
    /\ now' = now + d
    /\ UNCHANGED << envVars, edge, chat, modelsCache, upstream, pc, kind, sampled, res, resp,
                    headers, outbound, changed >>

\* Requests are numbered in the order in which they arrive.
Arrives(r) == \A q \in 1..(r - 1) : pc[q] # "idle"

Next ==
    \/ \E r \in Reqs : Arrives(r) /\ ModelsStart(r)
    \/ \E r \in Reqs : \E u \in FewResults : ModelsFetched(r, u)
    \/ \E r \in Reqs : ModelsParsed(r)
    \/ \E d \in TickSteps : Tick(d)

Spec == Init /\ [][Next]_vars

\* The provider keeps its answer.
NextData ==
    \/ \E r \in Reqs : Arrives(r) /\ ModelsStart(r)
    \/ \E r \in Reqs : ModelsFetched(r, upstream)
    \/ \E r \in Reqs : ModelsParsed(r)
    \/ \E d \in TickSteps : Tick(d)

\* The isolate in front of an upstream that keeps one answer, any answer.
SpecData == InitWith(ModelsResults, {EmptyCache}) /\ [][NextData]_vars

\* env is an argument of every request (line 8): a later request can come with
\* other bindings than an earlier one.  handleModels reads the credential in
\* the turn in which it starts and not again after an await.
Rebind ==
    /\ credential' = ~credential
    /\ \E r \in Reqs : pc[r] = "idle"
    /\ UNCHANGED << envTtl, allowedOrigin, supabaseUrl, supabaseKey, origin, edge, chat,
                    modelsCache, now, upstream, pc, kind, sampled, res, resp, headers,
                    outbound, changed >>

NextEnv ==
    \/ \E r \in Reqs : Arrives(r) /\ ModelsStart(r)
    \/ \E r \in Reqs : ModelsFetched(r, upstream)
    \/ \E r \in Reqs : ModelsParsed(r)
    \/ \E d \in TickSteps : Tick(d)
    \/ Rebind

SpecEnv == Init /\ [][NextEnv]_vars

(***************************************************************************)
(* handleChat.                                                             *)
(***************************************************************************)
modelsVars == << modelsCache, upstream, sampled, changed >>

\* Lines 73-80: the credential check, then the body is awaited.
ChatStart(r, body) ==
    /\ pc[r] = "idle"
    /\ kind' = [kind EXCEPT ![r] = "chat"]
    /\ chat' = [chat EXCEPT ![r].request = body]
    /\ IF ~credential
       THEN Finish(r, ConfigErrorResp)
       ELSE /\ pc' = [pc EXCEPT ![r] = "c_json"]
            /\ UNCHANGED << resp, res, headers >>
    /\ UNCHANGED << envVars, edge, modelsVars, now, outbound >>

\* Lines 78-118: request.json() settles; the fields are checked; the timer is
\* armed and the outbound POST issued.
ChatParsed(r) ==
    /\ pc[r] = "c_json"
    /\ IF Validate(chat[r].request) # "ok"
       THEN /\ Finish(r, ErrorResp(400, Validate(chat[r].request)))
            /\ UNCHANGED << chat, outbound >>
       ELSE /\ pc' = [pc EXCEPT ![r] = "c_fetch"]
            /\ chat' = [chat EXCEPT ![r].timer = "armed",
                                    ![r].armedAt = now,
                                    ![r].fetch = "pending",
                                    ![r].payload = ChatPayload(chat[r].request)]
            /\ outbound' = [outbound EXCEPT ![r] = @ + 1]
            /\ UNCHANGED << resp, res, headers >>
    /\ UNCHANGED << envVars, edge, modelsVars, now, kind >>

chatFrame == << envVars, edge, modelsVars, now, kind, outbound >>

\* Mutant: the timer is left armed when the provider answers.
ChatResponded_KeepsTimer(r, answer) ==
    /\ pc[r] = "c_fetch"
    /\ IF Ok(answer.status) /\ answer.body
       THEN /\ Finish(r, StreamResp)
            /\ chat' = [chat EXCEPT ![r].fetch = "resolved",
                                    ![r].status = answer.status,
                                    ![r].stream = "open"]
       ELSE /\ pc' = [pc EXCEPT ![r] = "c_text"]
            /\ chat' = [chat EXCEPT ![r].fetch = "resolved",
                                    ![r].status = answer.status,
                                    ![r].text = answer.text]
            /\ UNCHANGED << resp, res, headers >>
    /\ UNCHANGED chatFrame

\* Lines 99-135: the provider answers before the timer fires; the timer is
\* cleared, and the answer is either relayed as a stream or read as an error.
ChatResponded(r, answer) ==
    /\ pc[r] = "c_fetch"
    /\ IF Ok(answer.status) /\ answer.body
       THEN /\ Finish(r, StreamResp)
            /\ chat' = [chat EXCEPT ![r].timer = "cleared",
                                    ![r].fetch = "resolved",
                                    ![r].status = answer.status,
                                    ![r].stream = "open"]
       ELSE /\ pc' = [pc EXCEPT ![r] = "c_text"]
            /\ chat' = [chat EXCEPT ![r].timer = "cleared",
                                    ![r].fetch = "resolved",
                                    ![r].status = answer.status,
                                    ![r].text = answer.text]
            /\ UNCHANGED << resp, res, headers >>
    /\ UNCHANGED chatFrame

\* Lines 122-124: upstream.text() settles, its text is written to the log
\* (every text of the model is shorter than the 300 characters kept) and the
\* error response is built.
ChatErrorText(r) ==
    /\ pc[r] = "c_text"
    /\ Finish(r, UpstreamErrorResp(chat[r].status))
    /\ chat' = [chat EXCEPT ![r].logged = chat[r].text]
    /\ UNCHANGED chatFrame

\* Mutant: a network failure is followed by a second attempt.
ChatFetchFailed_Retry(r) ==
    /\ pc[r] = "c_fetch"
    /\ IF outbound[r] < 2
       THEN /\ outbound' = [outbound EXCEPT ![r] = @ + 1]
            /\ UNCHANGED << pc, resp, res, headers, chat >>
       ELSE /\ Finish(r, CatchResp("fetch failed"))
            /\ chat' = [chat EXCEPT ![r].timer = "cleared", ![r].fetch = "rejected"]
            /\ UNCHANGED outbound
    /\ UNCHANGED << envVars, edge, modelsVars, now, kind >>

\* Mutant: the catch block does not clear the timer.
ChatFetchFailed_KeepsTimer(r) ==
    /\ pc[r] = "c_fetch"
    /\ Finish(r, CatchResp("fetch failed"))
    /\ chat' = [chat EXCEPT ![r].fetch = "rejected"]
    /\ UNCHANGED chatFrame

\* Lines 136-140: the fetch rejects for a network failure; the catch block
\* clears the timer in the same turn.
ChatFetchFailed(r) ==
    /\ pc[r] = "c_fetch"
    /\ Finish(r, CatchResp("fetch failed"))
    /\ chat' = [chat EXCEPT ![r].timer = "cleared", ![r].fetch = "rejected"]
    /\ UNCHANGED chatFrame

\* Line 96 and lines 136-140: the timer fires while the fetch is pending;
\* ac.abort("upstream_timeout") rejects the fetch with that reason and the
\* catch block runs in the same turn.
TimerFires(r) ==
    /\ pc[r] = "c_fetch"
    /\ chat[r].timer = "armed"
    /\ now - chat[r].armedAt >= CHAT_TIMEOUT_MS
    /\ Finish(r, CatchResp("upstream_timeout"))
    /\ chat' = [chat EXCEPT ![r].timer = "fired", ![r].fetch = "aborted"]
    /\ UNCHANGED chatFrame

streamFrame == << envVars, edge, modelsVars, now, kind, outbound, pc, resp, headers, res >>

\* The provider writes a chunk to the body the client is reading.
UpstreamEmits(r, chunk) ==
    /\ chat[r].stream = "open" /\ ~chat[r].ended
    /\ Len(chat[r].source) < MaxChunks
    /\ chat' = [chat EXCEPT ![r].source = Append(@, chunk), ![r].pipe = Append(@, chunk)]
    /\ UNCHANGED streamFrame

\* The provider ends the body.
UpstreamEnds(r) ==
    /\ chat[r].stream = "open" /\ ~chat[r].ended
    /\ chat' = [chat EXCEPT ![r].ended = TRUE]
    /\ UNCHANGED streamFrame

\* Lines 127-135: the response body is upstream.body itself; the runtime hands
\* its chunks to the client one by one.
Pump(r) ==
    /\ chat[r].stream = "open"
    /\ chat[r].pipe # << >>
    /\ chat' = [chat EXCEPT ![r].pipe = Forward(chat[r].pipe, chat[r].client).pipe,
                            ![r].client = Forward(chat[r].pipe, chat[r].client).client]
    /\ UNCHANGED streamFrame

\* The client has read the body to its end.
StreamCloses(r) ==
    /\ chat[r].stream = "open" /\ chat[r].ended /\ chat[r].pipe = << >>
    /\ chat' = [chat EXCEPT ![r].stream = "closed"]
    /\ UNCHANGED streamFrame

\* The client goes away; the read of upstream.body is cancelled with it.
ClientDisconnects(r) ==
    /\ chat[r].stream = "open"
    /\ chat' = [chat EXCEPT ![r].stream = "cancelled", ![r].pipe = << >>]
    /\ UNCHANGED streamFrame

\* Date.now() moves on by 1 ms while a timer is armed -- the relay looks at
\* the time through its timer only -- or, once in a run, by the whole deadline.
\* A timer that is due fires, or is cleared, before the clock passes it.
ChatTickSteps == {1, CHAT_TIMEOUT_MS}

ChatTick(d) ==
    /\ IF d = 1
       THEN /\ now % CHAT_TIMEOUT_MS < MaxShort
            /\ \E r \in Reqs : chat[r].timer = "armed"
       ELSE now < CHAT_TIMEOUT_MS
    /\ \A r \in Reqs :
        chat[r].timer = "armed" => now + d <= chat[r].armedAt + CHAT_TIMEOUT_MS
    /\ now' = now + d
    /\ UNCHANGED << envVars, edge, modelsVars, kind, outbound, pc, resp, headers, res, chat >>

\* An isolate that serves chat requests after it has cached a catalog.
InitChat ==
    /\ InitWith({[net |-> "notok"]},
                {CacheReplace(EmptyCache, 0, << [id |-> "a", name |-> "A"] >>)})
    /\ envTtl = JsUndefined

NextInput ==
    \/ \E r \in Reqs : \E body \in ChatBodies : Arrives(r) /\ ChatStart(r, body)
    \/ \E r \in Reqs : ChatParsed(r)

SpecInput == InitChat /\ [][NextInput]_vars

NextChat ==
    \/ \E r \in Relays : \E body \in FewBodies : Arrives(r) /\ ChatStart(r, body)
    \/ \E r \in Relays : ChatParsed(r)
    \/ \E r \in Relays : \E answer \in ChatAnswers : ChatResponded(r, answer)
    \/ \E r \in Relays : ChatErrorText(r)
    \/ \E r \in Relays : ChatFetchFailed(r)
    \/ \E r \in Relays : TimerFires(r)
    \/ \E r \in Relays : \E chunk \in Chunks : UpstreamEmits(r, chunk)
    \/ \E r \in Relays : UpstreamEnds(r)
    \/ \E r \in Relays : Pump(r)
    \/ \E r \in Relays : StreamCloses(r)
    \/ \E r \in Relays : ClientDisconnects(r)
    \/ \E d \in ChatTickSteps : ChatTick(d)

SpecChat == InitChat /\ [][NextChat]_vars

(***************************************************************************)
(* The store handlers.                                                     *)
(***************************************************************************)
storeConfigured == supabaseUrl /\ supabaseKey

edgeFrame == << envVars, modelsVars, now, chat >>

\* The first turn of a store handler: the test of the bindings; a GET goes
\* to the store, a POST awaits its body.
StoreStart(r, endpoint, request) ==
    /\ pc[r] = "idle"
    /\ kind' = [kind EXCEPT ![r] = "store"]
    /\ IF ~storeConfigured
       THEN /\ Finish(r, StoreNotConfiguredResp)
            /\ edge' = [edge EXCEPT ![r].route = endpoint]
       ELSE IF endpoint \in StoreGets
       THEN /\ pc' = [pc EXCEPT ![r] = "s_fetch"]
            /\ edge' = [edge EXCEPT ![r].route = endpoint,
                                    ![r].request = request,
                                    ![r].storeCalls = @ + 1,
                                    ![r].storePayload = StorePayload(endpoint, request)]
            /\ UNCHANGED << resp, res, headers >>
       ELSE /\ pc' = [pc EXCEPT ![r] = "s_json"]
            /\ edge' = [edge EXCEPT ![r].route = endpoint, ![r].request = request]
            /\ UNCHANGED << resp, res, headers >>
    /\ UNCHANGED << edgeFrame, outbound >>

\* request.json() of a POST settles; the body is checked and sent on.
StoreParsed(r) ==
    /\ pc[r] = "s_json"
    /\ IF StoreValidate(edge[r].route, edge[r].request) # "ok"
       THEN /\ Finish(r, FailResp(400, StoreValidate(edge[r].route, edge[r].request)))
            /\ UNCHANGED edge
       ELSE /\ pc' = [pc EXCEPT ![r] = "s_fetch"]
            /\ edge' = [edge EXCEPT ![r].storeCalls = @ + 1,
                                    ![r].storePayload =
                                        StorePayload(edge[r].route, edge[r].request)]
            /\ UNCHANGED << resp, res, headers >>
    /\ UNCHANGED << edgeFrame, kind, outbound >>

\* The fetch to the store settles.  handleAnalyticsEventPost reads no body of
\* a 2xx answer.
StoreFetched(r, answer) ==
    /\ pc[r] = "s_fetch"
    /\ IF answer.net = "reject"
       THEN /\ Finish(r, FailResp(500, "fetch failed"))
            /\ UNCHANGED edge
       ELSE IF edge[r].route = "analyticsPost" /\ answer.net = "ok"
       THEN /\ Finish(r, StoreResp(edge[r].route, answer))
            /\ edge' = [edge EXCEPT ![r].answer = answer]
       ELSE /\ pc' = [pc EXCEPT ![r] = "s_body"]
            /\ edge' = [edge EXCEPT ![r].answer = answer]
            /\ UNCHANGED << resp, res, headers >>
    /\ UNCHANGED << edgeFrame, kind, outbound >>

\* res.json() or res.text() settles.
StoreBody(r) ==
    /\ pc[r] = "s_body"
    /\ Finish(r, StoreResp(edge[r].route, edge[r].answer))
    /\ UNCHANGED << edgeFrame, edge, kind, outbound >>

(***************************************************************************)
(* handleAutomationTrigger.                                                *)
(***************************************************************************)
\* Lines 276-277: the body is awaited first.
TriggerStart(r, body) ==
    /\ pc[r] = "idle"
    /\ kind' = [kind EXCEPT ![r] = "trigger"]
    /\ pc' = [pc EXCEPT ![r] = "t_json"]
    /\ edge' = [edge EXCEPT ![r].route = "trigger", ![r].request = body]
    /\ UNCHANGED << edgeFrame, outbound, resp, res, headers >>

\* Lines 277-297: request.json() settles; text and credential are checked and
\* the outbound POST issued, with no timer.
TriggerParsed(r) ==
    /\ pc[r] = "t_json"
    /\ IF TriggerValidate(edge[r].request, credential) # "ok"
       THEN /\ Finish(r, FailResp(IF TriggerValidate(edge[r].request, credential)
                                        = "OPEN_ROUTER_API_KEY missing" THEN 500 ELSE 400,
                                  TriggerValidate(edge[r].request, credential)))
            /\ UNCHANGED << edge, outbound >>
       ELSE /\ pc' = [pc EXCEPT ![r] = "t_fetch"]
            /\ edge' = [edge EXCEPT ![r].payload = TriggerPayload(edge[r].request)]
            /\ outbound' = [outbound EXCEPT ![r] = @ + 1]
            /\ UNCHANGED << resp, res, headers >>
    /\ UNCHANGED << edgeFrame, kind >>

\* Line 286: the provider answers; its body is awaited.
TriggerResponded(r, answer) ==
    /\ pc[r] = "t_fetch"
    /\ pc' = [pc EXCEPT ![r] = "t_data"]
    /\ edge' = [edge EXCEPT ![r].answer = answer]
    /\ UNCHANGED << edgeFrame, kind, outbound, resp, res, headers >>

\* Lines 311-313: the fetch rejects.
TriggerFetchFailed(r) ==
    /\ pc[r] = "t_fetch"
    /\ Finish(r, FailResp(500, "fetch failed"))
    /\ UNCHANGED << edgeFrame, edge, kind, outbound >>

\* Lines 298-310: upstream.json() settles; an error answer is returned with
\* its body, a completion is logged to the store when there is one.
TriggerRead(r) ==
    /\ pc[r] = "t_data"
    /\ IF ~Ok(edge[r].answer.status)
       THEN /\ Finish(r, TriggerErrorResp(edge[r].answer.status, TriggerData(edge[r].answer)))
            /\ UNCHANGED edge
       ELSE IF storeConfigured
       THEN /\ pc' = [pc EXCEPT ![r] = "t_log"]
            /\ edge' = [edge EXCEPT ![r].storeCalls = @ + 1,
                                    ![r].storePayload = TriggerEvent(edge[r].request)]
            /\ UNCHANGED << resp, res, headers >>
       ELSE /\ Finish(r, TriggerOkResp(TriggerData(edge[r].answer)))
            /\ UNCHANGED edge
    /\ UNCHANGED << edgeFrame, kind, outbound >>

\* Lines 303-310: the fetch to the store settles, either way.
TriggerLogged(r) ==
    /\ pc[r] = "t_log"
    /\ Finish(r, TriggerOkResp(TriggerData(edge[r].answer)))
    /\ UNCHANGED << edgeFrame, edge, kind, outbound >>

(***************************************************************************)
(* The router.                                                             *)
(***************************************************************************)
Paths ==
    { "/", "/builder", "/api/health", "/api/models", "/api/chat", "/api/builder/state",
      "/api/memory", "/api/analytics/event", "/api/analytics/summary",
      "/api/automation/trigger", "/widget.js", "/favicon.ico" }

HtmlResp(page) == [status |-> 200, body |-> [html |-> page]]

\* A route the router answers itself.
Static(r, name, response) ==
    /\ pc[r] = "idle"
    /\ kind' = [kind EXCEPT ![r] = name]
    /\ Finish(r, response)
    /\ UNCHANGED << edgeFrame, edge, outbound >>

\* What a request to `path` is tried with: the body of a POST, the query of a
\* GET to the store; one of each kind (no JSON, refused by a check, complete).
InputsOf(method, path) ==
    CASE method = "POST" /\ path = "/api/chat" -> FewBodies
      [] method = "POST"
            /\ path \in {"/api/builder/state", "/api/memory", "/api/analytics/event"} ->
            {BadJson, StoreRequest(JsUndefined, "absent"),
             StoreRequest(Chars(<< "k" >>), "present")}
      [] method = "GET" /\ path \in {"/api/builder/state", "/api/memory"} ->
            {StoreRequest(Chars(<< "k" >>), "absent")}
      [] method = "POST" /\ path = "/api/automation/trigger" ->
            {BadJson, TriggerBody(JsUndefined, JsUndefined),
             TriggerBody(Chars(<< "h", "i" >>), JsUndefined)}
      [] OTHER -> {BadJson}

\* Lines 8-30: fetch(request, env).
Route(r, method, path, body) ==
    CASE method = "OPTIONS" -> Static(r, "preflight", [status |-> 200, body |-> [null |-> TRUE]])
      [] method # "OPTIONS" /\ path = "/" -> Static(r, "html", HtmlResp("INDEX_HTML"))
      [] method # "OPTIONS" /\ path = "/builder" -> Static(r, "html", HtmlResp("BUILDER_HTML"))
      [] method # "OPTIONS" /\ path = "/api/health" ->
            Static(r, "health",
                   [ status |-> 200,
                     body |-> [ok |-> TRUE, service |-> "kopaing-edge-terminal-chat"] ])
      [] method = "GET" /\ path = "/api/models" ->
            ModelsStart(r)
      [] method = "POST" /\ path = "/api/chat" ->
            ChatStart(r, body)
      [] method = "GET" /\ path = "/api/builder/state" -> StoreStart(r, "builderGet", body)
      [] method = "POST" /\ path = "/api/builder/state" -> StoreStart(r, "builderPost", body)
      [] method = "GET" /\ path = "/api/memory" -> StoreStart(r, "memoryGet", body)
      [] method = "POST" /\ path = "/api/memory" -> StoreStart(r, "memoryPost", body)
      [] method = "POST" /\ path = "/api/analytics/event" ->
            StoreStart(r, "analyticsPost", body)
      [] method = "GET" /\ path = "/api/analytics/summary" ->
            StoreStart(r, "analyticsGet", StoreRequest(JsUndefined, "absent"))
      [] method = "POST" /\ path = "/api/automation/trigger" -> TriggerStart(r, body)
      [] method = "GET" /\ path = "/widget.js" ->
            Static(r, "widget", [status |-> 200, body |-> [js |-> "WIDGET_JS"]])
      [] OTHER -> Static(r, "notfound", [status |-> 404, body |-> [error |-> "Not found"]])

\* An isolate with the bindings `creds`, `urls`, `keys` and `alloweds` to
\* choose from, whose requests come from `origins`.
InitEdgeWith(creds, urls, keys, alloweds, origins) ==
    /\ credential \in creds
    /\ envTtl = JsUndefined
    /\ allowedOrigin \in alloweds
    /\ supabaseUrl \in urls /\ supabaseKey \in keys
    /\ origin \in [Reqs -> origins]
    /\ \A r \in Reqs \ Relays : origin[r] = Undefined
    /\ modelsCache = EmptyCache
    /\ now = 0
    /\ upstream = [net |-> "notok"]
    /\ pc = [r \in Reqs |-> "idle"]
    /\ kind = [r \in Reqs |-> "none"]
    /\ sampled = [r \in Reqs |-> 0]
    /\ res = [r \in Reqs |-> NoResult]
    /\ resp = [r \in Reqs |-> NoResp]
    /\ headers = [r \in Reqs |-> NoHeaders]
    /\ edge = [r \in Reqs |-> NoEdge]
    /\ outbound = [r \in Reqs |-> 0]
    /\ changed = [r \in Reqs |-> FALSE]
    /\ chat = [r \in Reqs |-> NoChat]

\* The steps of the handlers after their first turn.
ModelsSteps(r) == (\E u \in FewResults : ModelsFetched(r, u)) \/ ModelsParsed(r)

ChatSteps(r) ==
    \/ ChatParsed(r)
    \/ \E answer \in ChatAnswers : ChatResponded(r, answer)
    \/ ChatErrorText(r)
    \/ ChatFetchFailed(r)
    \/ TimerFires(r)

StoreSteps(r) ==
    \/ StoreParsed(r)
    \/ \E answer \in StoreAnswers : StoreFetched(r, answer)
    \/ StoreBody(r)

TriggerSteps(r) ==
    \/ TriggerParsed(r)
    \/ \E answer \in TriggerAnswers : TriggerResponded(r, answer)
    \/ TriggerFetchFailed(r)
    \/ TriggerRead(r)
    \/ TriggerLogged(r)

NextEdge ==
    \/ \E r \in Relays :
            /\ Arrives(r) /\ pc[r] = "idle"
            /\ \E method \in {"GET", "POST", "OPTIONS"} : \E path \in Paths :
                    \E body \in InputsOf(method, path) : Route(r, method, path, body)
    \/ \E r \in Relays : ModelsSteps(r)
    \/ \E r \in Relays : ChatSteps(r)
    \/ \E r \in Relays : StoreSteps(r)
    \/ \E r \in Relays : TriggerSteps(r)
    \* the deadline of an armed timer comes (line 96)
    \/ (\E r \in Reqs : chat[r].timer = "armed") /\ ChatTick(CHAT_TIMEOUT_MS)

\* Every route of the gateway, with any allow-list and any Origin.
SpecEdge ==
    /\ InitEdgeWith(BOOLEAN, BOOLEAN, {TRUE},
                    {Undefined, "*", "https://app.example"},
                    {Undefined, "https://app.example", "https://evil.example", "null"})
    /\ [][NextEdge]_vars

NextStore ==
    \/ \E r \in Relays : \E endpoint \in StorePosts : \E request \in StoreRequests :
            Arrives(r) /\ StoreStart(r, endpoint, request)
    \/ \E r \in Relays : \E endpoint \in StoreGets : \E key \in StoreKeys :
            Arrives(r) /\ StoreStart(r, endpoint, StoreRequest(key, "absent"))
    \/ \E r \in Relays : StoreSteps(r)

\* The store handlers, with every combination of the two store bindings.
SpecStore ==
    /\ InitEdgeWith({TRUE}, BOOLEAN, BOOLEAN, {Undefined}, {Undefined})
    /\ [][NextStore]_vars

NextCalls ==
    \/ \E r \in Relays : Arrives(r) /\ ModelsStart(r)
    \/ \E r \in Relays : \E body \in FewBodies : Arrives(r) /\ ChatStart(r, body)
    \/ \E r \in Relays : \E body \in TriggerBodies : Arrives(r) /\ TriggerStart(r, body)
    \/ \E r \in Relays : ModelsSteps(r)
    \/ \E r \in Relays : ChatSteps(r)
    \/ \E r \in Relays : TriggerSteps(r)
    \/ \E d \in ChatTickSteps : ChatTick(d)

\* The handlers that call the provider: list-models, the chat relay and the
\* automation trigger, with and without credential and store.
SpecCalls ==
    /\ InitEdgeWith(BOOLEAN, BOOLEAN, {TRUE}, {Undefined}, {Undefined})
    /\ [][NextCalls]_vars

\* Line 96: setTimeout(..., 30000).  The clock reaches the deadline of the
\* timers armed at this moment; a timer that is due fires, or is cleared,
\* before the clock moves on.
TimePasses ==
    /\ \E r \in Reqs : chat[r].timer = "armed"
    /\ \A r \in Reqs : chat[r].timer = "armed" => now = chat[r].armedAt
    /\ now' = now + CHAT_TIMEOUT_MS
    /\ UNCHANGED << envVars, edge, modelsVars, kind, outbound, pc, resp, headers, res, chat >>

NextLive ==
    \/ \E r \in Reqs : Arrives(r) /\ ModelsStart(r)
    \/ \E r \in Reqs : \E body \in FewBodies : Arrives(r) /\ ChatStart(r, body)
    \/ \E r \in Reqs : ModelsSteps(r)
    \/ \E r \in Reqs : ChatSteps(r)
    \/ TimePasses

\* The two handlers that relay to the provider, in a runtime that does not
\* stop: while a continuation that follows the outbound request is ready, a
\* timer is due or a deadline is ahead, one of them is run or time passes.  Nothing makes the provider answer: the
\* steps in which a fetch settles by the provider's doing (ModelsFetched,
\* ChatResponded, ChatFetchFailed) are not fair.
SpecLive ==
    /\ InitEdgeWith({TRUE}, {FALSE}, {FALSE}, {Undefined}, {Undefined})
    /\ [][NextLive]_vars
    /\ WF_vars(\/ TimePasses
               \/ \E r \in Reqs : TimerFires(r) \/ ChatErrorText(r) \/ ModelsParsed(r))

(***************************************************************************)
(* Properties of the models cache.                                         *)
(***************************************************************************)
Ttl == TtlOf(envTtl)

IsModelsDone(r) == kind[r] = "models" /\ pc[r] = "done"

Flag(r, key) == Has(resp[r].body, key) /\ resp[r].body[key]

\* The task r starts a list-models call in this step.
StartsModels(r) == pc[r] = "idle" /\ kind'[r] = "models"

\* C1 as written: of two list-models calls within ttl of each other with no
\* upstream change in between, the second returns cached=true and the list the
\* first returned -- whatever the first call's outcome, and also when the second
\* starts while the first is still fetching.  Stated at the step in which the
\* second call starts, the only step that can return cached=true.
C1_AnyTwoCalls ==
    [][\A i, j \in Reqs :
         ( /\ i # j /\ credential
           /\ kind[i] = "models" /\ pc[i] # "idle" /\ ~changed[i]
           /\ StartsModels(j)
           /\ now - sampled[i] < Ttl )
         => /\ pc'[j] = "done"
            /\ Has(resp'[j].body, "cached") /\ resp'[j].body.cached
            /\ (pc[i] = "done" => resp'[j].body.models = resp[i].body.models)]_vars

\* C1, amended: when the first call returned cached=false (it stored its list
\* under its own sampled time) before the second call starts, the cache still
\* holds that write, and the second call's time is less than ttl after the
\* first's, the second returns cached=true with the first call's list.
C1_SecondCallCached ==
    [][\A i, j \in Reqs :
         ( /\ i # j /\ credential
           /\ IsModelsDone(i)
           /\ Has(resp[i].body, "cached") /\ ~resp[i].body.cached
           /\ modelsCache = [at |-> sampled[i], data |-> JsArray(resp[i].body.models)]
           /\ StartsModels(j)
           /\ now - sampled[i] < Ttl )
         => /\ pc'[j] = "done"
            /\ resp'[j] = [status |-> 200,
                           body |-> [models |-> resp[i].body.models, cached |-> TRUE]]]_vars

C1_Witness ==
    \E i, j \in Reqs :
        /\ i # j /\ IsModelsDone(i) /\ IsModelsDone(j)
        /\ Has(resp[i].body, "cached") /\ ~resp[i].body.cached
        /\ Flag(j, "cached")
        /\ modelsCache.at = sampled[i] /\ sampled[j] > sampled[i]
        /\ resp[j].body.models = resp[i].body.models

\* C2: modelsCache changes only in the step in which a list-models call returns
\* cached=false, and then to exactly that call's pair {its sampled time, the
\* list it returns}; a call that returns cached=true returns the list the cache
\* holds in that step and leaves the cache alone.
C2_WholePairReplace ==
    [][/\ modelsCache' # modelsCache =>
            \E r \in Reqs :
                /\ kind[r] = "models" /\ pc[r] = "m_json" /\ pc'[r] = "done"
                /\ Has(resp'[r].body, "cached") /\ ~resp'[r].body.cached
                /\ modelsCache' = [at |-> sampled[r], data |-> JsArray(resp'[r].body.models)]
       /\ \A r \in Reqs :
            (StartsModels(r) /\ Has(resp'[r].body, "cached")) =>
                /\ resp'[r].body.cached
                /\ modelsCache.data.type = "array"
                /\ resp'[r].body.models = modelsCache.data.items
                /\ modelsCache' = modelsCache]_vars

\* A write lands while another call is in flight and has read an older cache.
C2_Witness ==
    \E i, j \in Reqs :
        /\ i # j /\ IsModelsDone(i)
        /\ Has(resp[i].body, "cached") /\ ~resp[i].body.cached
        /\ modelsCache = [at |-> sampled[i], data |-> JsArray(resp[i].body.models)]
        /\ pc[j] \in {"m_fetch", "m_json"}
        /\ sampled[j] < sampled[i]

\* The upstream answers of C3: a non-2xx status, or a 2xx whose data field is
\* missing, not an array, empty, or holds no entry with an id.
NoUsableData(u) ==
    \/ u.net = "notok"
    \/ /\ u.net = "ok" /\ u.json = "parsed"
       /\ \/ u.data.type # "array"
          \/ \A k \in 1..Len(u.data.items) : u.data.items[k].id = Undefined

\* C3: a cache-miss call answered that way returns the static list, which is
\* not empty, with fallback=true.  (Under SpecData the upstream keeps its answer.)
C3_FallbackComplete ==
    \A r \in Reqs :
        (IsModelsDone(r) /\ outbound[r] = 1 /\ NoUsableData(upstream)) =>
            /\ resp[r].status = 200
            /\ Flag(r, "fallback")
            /\ resp[r].body.models = fallbackModels
            /\ Len(resp[r].body.models) > 0

C3_Witness ==
    \E r \in Reqs :
        /\ IsModelsDone(r) /\ outbound[r] = 1
        /\ upstream.net = "ok" /\ upstream.json = "parsed" /\ upstream.data.type = "array"
        /\ Len(upstream.data.items) = MaxData
        /\ NoUsableData(upstream)
        /\ Flag(r, "fallback")

NonEmptyIds(models) ==
    /\ Len(models) >= 1
    /\ \A k \in 1..Len(models) : models[k].id \notin {Undefined, ""}

\* C4: every list a list-models call returns has at least one entry and only
\* entries with a non-empty id, and so has the cache unless it is unset.
C4_NeverEmpty ==
    /\ \A r \in Reqs :
        (IsModelsDone(r) /\ resp[r].status = 200) => NonEmptyIds(resp[r].body.models)
    /\ modelsCache.data.type = "null"
        \/ (modelsCache.data.type = "array" /\ NonEmptyIds(modelsCache.data.items))

\* The upstream array held entries without a usable id, and a call was served
\* the filtered list from the cache.
C4_Witness ==
    \E r \in Reqs :
        /\ IsModelsDone(r) /\ Flag(r, "cached")
        /\ upstream.net = "ok" /\ upstream.json = "parsed" /\ upstream.data.type = "array"
        /\ \E k \in 1..Len(upstream.data.items) : upstream.data.items[k].id = ""
        /\ Len(resp[r].body.models) < Len(upstream.data.items)

\* The task r ends a list-models call on a fallback path in this step.
EndsInFallback(r) ==
    /\ kind[r] = "models" /\ pc[r] \in {"m_fetch", "m_json"} /\ pc'[r] = "done"
    /\ Has(resp'[r].body, "fallback")

\* C13: the step in which a list-models call ends on a fallback path leaves
\* modelsCache as it is, a snapshot past its ttl included, and returns the
\* static list, not the list of the cache; and a call that starts when the
\* cache is empty or past its ttl issues an outbound request.
C13_FallbackNotCached ==
    [][/\ \A r \in Reqs :
            EndsInFallback(r) =>
                /\ modelsCache' = modelsCache
                /\ resp'[r].body.models = fallbackModels
                /\ modelsCache.data.type = "array" =>
                        resp'[r].body.models # modelsCache.data.items
       /\ \A r \in Reqs :
            ( /\ StartsModels(r) /\ credential
              /\ (modelsCache.data.type = "null" \/ now - modelsCache.at >= Ttl) )
            => /\ pc'[r] = "m_fetch"
               /\ outbound'[r] = outbound[r] + 1]_vars

\* A call found a snapshot past its ttl, went upstream, ended on the fallback
\* path, and the old snapshot is still in the cache.
C13_Witness ==
    \E i, j \in Reqs :
        /\ IsModelsDone(i) /\ Has(resp[i].body, "cached") /\ ~resp[i].body.cached
        /\ IsModelsDone(j) /\ Flag(j, "fallback") /\ outbound[j] = 1
        /\ sampled[j] - sampled[i] >= DEFAULT_MODELS_CACHE_TTL_MS
        /\ modelsCache = [at |-> sampled[i], data |-> JsArray(resp[i].body.models)]

\* A provider that answers 2xx with a data array.
HasArray(u) == u.net = "ok" /\ u.json = "parsed" /\ u.data.type = "array"

\* The cache-miss calls C14 is about: they went upstream and returned cached=false.
FetchedFresh(r) ==
    /\ IsModelsDone(r) /\ outbound[r] = 1
    /\ Has(resp[r].body, "cached") /\ ~resp[r].body.cached

\* The list C14 describes: entries without an id field dropped, order kept,
\* a missing name -- and only a missing one -- replaced by the id.
HasIdField(m) == m.id # Undefined

ListAsWritten(items) ==
    SelectSeq([k \in 1..Len(items) |->
                  [id |-> items[k].id,
                   name |-> IF items[k].name = Undefined THEN items[k].id ELSE items[k].name]],
              HasIdField)

\* C14 as written.  (Under SpecData the provider keeps its answer.)
C14_ProjectionAsWritten ==
    \A r \in Reqs :
        (FetchedFresh(r) /\ HasArray(upstream)) =>
            resp[r].body.models = ListAsWritten(upstream.data.items)

\* The list the amended C14 describes: entries whose id is missing or empty
\* dropped, order kept, a missing or empty name replaced by the id.
HasNonEmptyId(m) == m.id \notin {Undefined, ""}

ListAmended(items) ==
    SelectSeq([k \in 1..Len(items) |->
                  [id |-> items[k].id,
                   name |-> IF items[k].name \in {Undefined, ""}
                            THEN items[k].id ELSE items[k].name]],
              HasNonEmptyId)

\* C14, amended: a call that misses the cache while the provider answers 2xx
\* with an array holding an entry with a non-empty id returns cached=false with
\* the amended list, and the cache then holds that list under the sampled time
\* of a call that returned it.
C14_Projection ==
    \A r \in Reqs :
        ( /\ IsModelsDone(r) /\ outbound[r] = 1 /\ HasArray(upstream)
          /\ \E k \in 1..Len(upstream.data.items) : HasNonEmptyId(upstream.data.items[k]) )
        => /\ resp[r] = [ status |-> 200,
                          body |-> [ models |-> ListAmended(upstream.data.items),
                                     cached |-> FALSE ] ]
           /\ modelsCache.data = JsArray(ListAmended(upstream.data.items))
           /\ \E q \in Reqs : FetchedFresh(q) /\ modelsCache.at = sampled[q]

\* The provider's array has an entry with an empty name and one without id;
\* the call returned the first under its id and dropped the second.
C14_Witness ==
    \E r \in Reqs :
        /\ FetchedFresh(r) /\ HasArray(upstream)
        /\ upstream.data.items = << [id |-> "b", name |-> ""], [id |-> Undefined, name |-> "A"] >>
        /\ resp[r].body.models = << [id |-> "b", name |-> "b"] >>
        /\ modelsCache.data = JsArray(resp[r].body.models)

\* The fetch or the parsing of its body raises an exception.
Unreachable(u) == u.net = "reject" \/ (u.net = "ok" /\ u.json = "throws")

\* C15: a list-models response carries degraded=true exactly when the call
\* went upstream and the fetch or the parsing raised an exception; a call
\* answered with a non-success status or with no valid entry returns
\* fallback=true and no degraded field.  (Under SpecData the provider keeps
\* its answer.)
C15_DegradedFlag ==
    \A r \in Reqs :
        IsModelsDone(r) =>
            /\ Flag(r, "degraded") <=> (outbound[r] = 1 /\ Unreachable(upstream))
            /\ Has(resp[r].body, "degraded") => Flag(r, "degraded") /\ Flag(r, "fallback")
            /\ (outbound[r] = 1 /\ NoUsableData(upstream)) =>
                    Flag(r, "fallback") /\ ~Has(resp[r].body, "degraded")

\* The provider answered 2xx with a body that is no JSON.
C15_Witness ==
    \E r \in Reqs :
        /\ IsModelsDone(r) /\ outbound[r] = 1
        /\ upstream.net = "ok" /\ upstream.json = "throws"
        /\ Flag(r, "degraded") /\ Flag(r, "fallback")

\* C16: a list-models call that starts without a credential returns 500 with
\* code CONFIG_ERROR in that step, whatever the cache holds, issues no outbound
\* request, samples no time and leaves modelsCache as it is.
C16_CredentialFirst ==
    [][\A r \in Reqs :
         (StartsModels(r) /\ ~credential) =>
            /\ pc'[r] = "done"
            /\ resp'[r] = [ status |-> 500,
                            body |-> [ error |-> "OPEN_ROUTER_API_KEY missing",
                                       code |-> "CONFIG_ERROR" ] ]
            /\ outbound'[r] = 0
            /\ sampled'[r] = sampled[r]
            /\ modelsCache' = modelsCache]_vars

\* A call without credential was refused while the cache held the snapshot an
\* earlier call had stored, still within its ttl.
C16_Witness ==
    \E i, r \in Reqs :
        /\ i < r /\ FetchedFresh(i)
        /\ modelsCache = [at |-> sampled[i], data |-> JsArray(resp[i].body.models)]
        /\ now - modelsCache.at < Ttl
        /\ ~credential /\ IsModelsDone(r) /\ resp[r].status = 500

(***************************************************************************)
(* Properties of the chat request checks.                                  *)
(***************************************************************************)
IsChat(r) == kind[r] = "chat"

\* The field is absent, empty or all white space.
Blank(v) == v.type # "string" \/ \A k \in 1..Len(v.runs) : v.runs[k].ch \in WhiteSpace

\* The length of the field once surrounding white space is removed.
TrimmedLength(v) == IF Blank(v) THEN 0 ELSE StrLength(Trim(v))

\* The preconditions of the chat relay in the order of the specification; the
\* error of the first one that is violated, "ok" when none is.
FirstViolated(body) ==
    CASE ~credential -> "OPEN_ROUTER_API_KEY missing"
      [] credential /\ body.parse = "throws" -> "Invalid JSON"
      [] credential /\ body.parse = "ok" /\ Blank(body.value.model) -> "model is required"
      [] credential /\ body.parse = "ok" /\ ~Blank(body.value.model)
            /\ Blank(body.value.prompt) -> "prompt is required"
      [] credential /\ body.parse = "ok" /\ ~Blank(body.value.model)
            /\ ~Blank(body.value.prompt)
            /\ TrimmedLength(body.value.prompt) > 8000 -> "prompt exceeds 8000 chars"
      [] OTHER -> "ok"

\* The call has got past its checks.
Relayed(r) == IsChat(r) /\ chat[r].fetch # "none"

\* The call was refused by a check.
Refused(r) == IsChat(r) /\ pc[r] = "done" /\ chat[r].fetch = "none"

\* C5: a refused chat call reports the first violated precondition in the order
\* credential, JSON, model, prompt, prompt length, and a call is relayed only
\* when none is violated; a blank model with a blank prompt gives
\* "model is required".
C5_ValidationOrder ==
    \A r \in Reqs :
        /\ Refused(r) => resp[r].body.error = FirstViolated(chat[r].request)
        /\ Relayed(r) => FirstViolated(chat[r].request) = "ok"
        /\ ( /\ Refused(r) /\ credential /\ chat[r].request.parse = "ok"
             /\ chat[r].request.value.model = EmptyString
             /\ chat[r].request.value.prompt = EmptyString )
           => resp[r] = [status |-> 400, body |-> [error |-> "model is required"]]

C5_Witness ==
    \E r \in Reqs :
        /\ Refused(r) /\ credential /\ chat[r].request.parse = "ok"
        /\ chat[r].request.value.model = EmptyString
        /\ chat[r].request.value.prompt = EmptyString
        /\ resp[r].body.error = "model is required"

\* The requests C6 is about: credential, JSON, a model.
WellFormed(r) ==
    /\ IsChat(r) /\ credential /\ pc[r] \notin {"idle", "c_json"}
    /\ chat[r].request.parse = "ok" /\ ~Blank(chat[r].request.value.model)

\* C6: a prompt of 8000 characters after trimming goes upstream, as sent; one of
\* 8001 is refused with 400 and no outbound call.
C6_PromptBoundary ==
    \A r \in Reqs :
        /\ (WellFormed(r) /\ TrimmedLength(chat[r].request.value.prompt) = 8000)
            => /\ Relayed(r) /\ outbound[r] = 1
               /\ StrLength(chat[r].payload.user) = 8000
        /\ (WellFormed(r) /\ TrimmedLength(chat[r].request.value.prompt) = 8001)
            => /\ Refused(r) /\ outbound[r] = 0
               /\ resp[r] = [status |-> 400, body |-> [error |-> "prompt exceeds 8000 chars"]]

\* One request of 8002 characters, 8000 of them inside the white space, is
\* relayed; another of 8001 is refused.
C6_Witness ==
    \E r, q \in Reqs :
        /\ WellFormed(r) /\ Relayed(r)
        /\ StrLength(chat[r].request.value.prompt) = 8002
        /\ StrLength(chat[r].payload.user) = 8000
        /\ WellFormed(q) /\ Refused(q)
        /\ TrimmedLength(chat[q].request.value.prompt) = 8001

\* C7: a chat call with a violated precondition returns in the step that finds
\* it, and that step issues no outbound request, arms no timer and leaves
\* modelsCache as it is.
C7_ShortCircuit ==
    [][\A r \in Reqs :
         ( /\ kind'[r] = "chat" /\ pc[r] \in {"idle", "c_json"} /\ pc'[r] # pc[r]
           /\ ( \/ pc'[r] = "done"
                \/ (pc[r] = "c_json" /\ FirstViolated(chat[r].request) # "ok") ) )
         => /\ pc'[r] = "done"
            /\ resp'[r].status \in {400, 500}
            /\ outbound'[r] = 0
            /\ chat'[r].timer = "unset" /\ chat'[r].fetch = "none"
            /\ modelsCache' = modelsCache]_vars

\* A refused call in an isolate whose cache holds a catalog.
C7_Witness ==
    \E r \in Reqs :
        /\ Refused(r) /\ credential
        /\ resp[r].body.error = "prompt is required"
        /\ modelsCache.data.type = "array"

\* The persona of the request, lower-cased, without surrounding white space;
\* the default one when the field is absent or blank.
PersonaKey(v) == IF Blank(v) THEN Default ELSE ToLowerCase(Trim(v))

\* C10: the system prompt sent upstream depends on the persona alone; personas
\* that differ in case only get the same prompt; sales, tutor and support get
\* theirs; every other persona, "default", an empty and an absent one get the
\* default prompt.
C10_PersonaFallback ==
    /\ \A r, q \in Reqs :
        ( /\ Relayed(r) /\ Relayed(q)
          /\ PersonaKey(chat[r].request.value.persona)
                = PersonaKey(chat[q].request.value.persona) )
        => chat[r].payload.system = chat[q].payload.system
    /\ \A r \in Reqs :
        Relayed(r) =>
            LET key == PersonaKey(chat[r].request.value.persona)
                system == chat[r].payload.system
            IN  /\ key = Sales => system = SalesPrompt
                /\ key = Tutor => system = TutorPrompt
                /\ key = Support => system = SupportPrompt
                /\ key \notin {Sales, Tutor, Support} => system = DefaultPrompt

\* "SALES" got the sales prompt and "pirate" the default one, on requests with
\* different prompts.
C10_Witness ==
    \E r, q \in Reqs :
        /\ Relayed(r) /\ Relayed(q)
        /\ chat[r].request.value.persona = Chars(<< "S", "A", "L", "E", "S" >>)
        /\ chat[r].payload.system = SalesPrompt
        /\ chat[q].request.value.persona = Chars(<< "p", "i", "r", "a", "t", "e" >>)
        /\ chat[q].payload.system = DefaultPrompt
        /\ chat[r].payload.user # chat[q].payload.user

(***************************************************************************)
(* Properties of the relay.                                                *)
(***************************************************************************)
\* C8: an outbound chat call is never pending more than 30 000 ms after the
\* timer was armed; when the timer fires, not before that time, the call is
\* aborted and the chat call returns 504 "upstream timeout", not the 502 of a
\* network failure; and that response is returned for no other reason.
C8_Timeout ==
    \A r \in Reqs :
        IsChat(r) =>
            /\ chat[r].fetch = "pending" => now - chat[r].armedAt <= 30000
            /\ chat[r].timer = "fired" =>
                /\ now - chat[r].armedAt >= 30000
                /\ chat[r].fetch = "aborted"
                /\ pc[r] = "done"
                /\ resp[r] = [status |-> 504, body |-> [error |-> "upstream timeout"]]
            /\ (pc[r] = "done" /\ resp[r] = ErrorResp(504, "upstream timeout"))
                    => chat[r].timer = "fired"

C8_Witness ==
    \E r \in Reqs :
        /\ IsChat(r) /\ chat[r].timer = "fired"
        /\ now - chat[r].armedAt = 30000
        /\ resp[r].status = 504

IsPrefix(a, b) == Len(a) <= Len(b) /\ \A k \in 1..Len(a) : a[k] = b[k]

\* C9: what the client has received of a relayed stream is at every moment a
\* prefix of what the provider has sent, nothing is lost on the way, and when
\* the stream has completed the client has received exactly what was sent.
C9_StreamFidelity ==
    \A r \in Reqs :
        chat[r].stream # "none" =>
            /\ IsPrefix(chat[r].client, chat[r].source)
            /\ chat[r].stream \in {"open", "closed"} =>
                    chat[r].client \o chat[r].pipe = chat[r].source
            /\ chat[r].stream = "closed" => chat[r].client = chat[r].source

\* A stream of the longest length, of different chunks, completed after the
\* clock moved on.
C9_Witness ==
    \E r \in Reqs :
        /\ chat[r].stream = "closed"
        /\ Len(chat[r].client) = MaxChunks
        /\ chat[r].client[1] # chat[r].client[MaxChunks]
        /\ now > chat[r].armedAt

(***************************************************************************)
(* Properties of the chat relay's failures.                                *)
(***************************************************************************)
\* Why a chat call failed, of the four causes of C11; "none" for a call that
\* failed for another reason or did not fail.
ChatCause(r) ==
    CASE ~credential -> "credential"
      [] credential /\ chat[r].request.parse = "throws" -> "json"
      [] credential /\ chat[r].fetch = "aborted" -> "timeout"
      [] credential /\ chat[r].fetch = "rejected" -> "network"
      [] OTHER -> "none"

CauseStatus(cause) ==
    CASE cause = "credential" -> 500
      [] cause = "json" -> 400
      [] cause = "timeout" -> 504
      [] cause = "network" -> 502

\* C11: a chat call that failed for a missing credential, a malformed JSON
\* body, the deadline or another network failure returns the status of its
\* cause -- 500 with code CONFIG_ERROR, 400, 504, 502 -- and not the status of
\* another of the four causes.
C11_FailureStatus ==
    \A r \in Reqs :
        (IsChat(r) /\ pc[r] = "done" /\ ChatCause(r) # "none") =>
            /\ resp[r].status = CauseStatus(ChatCause(r))
            /\ \A other \in {"credential", "json", "timeout", "network"} \ {ChatCause(r)} :
                    resp[r].status # CauseStatus(other)
            /\ ChatCause(r) = "credential" =>
                    Has(resp[r].body, "code") /\ resp[r].body.code = "CONFIG_ERROR"

\* A network failure after the clock has moved on, reported as 502.
C11_Witness ==
    \E r \in Reqs :
        /\ IsChat(r) /\ pc[r] = "done" /\ ChatCause(r) = "network"
        /\ resp[r] = ErrorResp(502, "network failure")
        /\ now > chat[r].armedAt

\* The outbound call completed and the relay did not stream: the provider
\* answered with a non-success status or without a body.
UpstreamFailed(r) ==
    IsChat(r) /\ pc[r] = "done" /\ chat[r].fetch = "resolved" /\ chat[r].stream = "none"

\* C12 as written: whatever status the provider answered with, such a call
\* returns "upstream error" with the provider's status in the body and as the
\* HTTP status.
C12_UpstreamErrorAlways ==
    \A r \in Reqs :
        UpstreamFailed(r) =>
            resp[r] = [ status |-> chat[r].status,
                        body |-> [error |-> "upstream error", status |-> chat[r].status] ]

\* The provider answered 204 without a body and the client was told of a
\* network failure.
C12_Witness ==
    \E r \in Reqs :
        /\ UpstreamFailed(r) /\ chat[r].status = 204
        /\ resp[r] = ErrorResp(502, "network failure")

(***************************************************************************)
(* Properties of the calls to the provider.                                *)
(***************************************************************************)
\* C17: a list-models call and a chat call issue an outbound request at most
\* once, in the turn that passes their checks -- a chat call whose
\* preconditions all hold does issue it -- and no later step of the call, the
\* one that ends it with an error included, issues another.
C17_NoRetry ==
    [][\A r \in Reqs :
         kind'[r] \in {"models", "chat"} =>
            /\ outbound'[r] # outbound[r] =>
                    /\ outbound[r] = 0 /\ outbound'[r] = 1
                    /\ pc[r] \in {"idle", "c_json"}
                    /\ pc'[r] \in {"m_fetch", "c_fetch"}
            /\ pc'[r] = "done" => outbound'[r] = outbound[r] /\ outbound'[r] <= 1
            /\ (pc[r] = "c_json" /\ pc'[r] # "c_json"
                    /\ FirstViolated(chat[r].request) = "ok") => outbound'[r] = 1]_vars

\* A chat call whose provider answered 429 has issued one request.
C17_Witness ==
    \E r \in Reqs :
        /\ IsChat(r) /\ pc[r] = "done" /\ chat[r].status = 429
        /\ resp[r].status = 429 /\ outbound[r] = 1

\* The provider answered the trigger with an error status.
TriggerFailed(r) ==
    /\ kind[r] = "trigger" /\ pc[r] = "done"
    /\ Has(edge[r].answer, "status") /\ ~Ok(edge[r].answer.status)

\* C18 as written: when the provider answers a chat call or a trigger with an
\* error, the response holds the provider's status and an error string at
\* most, and that string is not the body the provider sent.
C18_NoUpstreamBody ==
    \A r \in Reqs :
        /\ UpstreamFailed(r) =>
                /\ DOMAIN resp[r].body \subseteq {"error", "status"}
                /\ chat[r].text # "" => resp[r].body.error # chat[r].text
        /\ TriggerFailed(r) =>
                /\ DOMAIN resp[r].body \subseteq {"ok", "error", "status"}
                /\ edge[r].answer.json = "parsed" =>
                        resp[r].body.error # edge[r].answer.data.json

\* The provider answered the trigger 429 with a diagnostic, and the client
\* received that diagnostic.
C18_Witness ==
    \E r \in Reqs :
        /\ TriggerFailed(r) /\ edge[r].answer.status = 429
        /\ resp[r] = [status |-> 429, body |-> [ok |-> FALSE, error |-> Diagnostic]]

(***************************************************************************)
(* Properties of the router and the store handlers.                        *)
(***************************************************************************)
\* env.ALLOWED_ORIGIN names one origin.
AllowListed == allowedOrigin \notin {Undefined, "", "*"}

\* C19: every response, of every route and outcome, carries the four CORS
\* headers; access-control-allow-origin is "*" exactly when the allow-list is
\* "*" or unset, is the request's Origin when that is the allow-list's value,
\* and is "null" for every other request.
C19_Cors ==
    \A r \in Reqs :
        pc[r] = "done" =>
            /\ DOMAIN headers[r] = {"allowOrigin", "allowMethods", "allowHeaders", "vary"}
            /\ headers[r].allowMethods = "GET,POST,OPTIONS"
            /\ headers[r].allowHeaders = "content-type"
            /\ headers[r].vary = "Origin"
            /\ headers[r].allowOrigin = "*" <=> ~AllowListed
            /\ (AllowListed /\ origin[r] = allowedOrigin) =>
                    headers[r].allowOrigin = origin[r]
            /\ (AllowListed /\ origin[r] # allowedOrigin) =>
                    headers[r].allowOrigin = "null"

\* A chat call from another origin than the allowed one was answered with a
\* stream whose allow-origin is "null".
C19_Witness ==
    \E r \in Reqs :
        /\ IsChat(r) /\ pc[r] = "done" /\ resp[r] = StreamResp
        /\ AllowListed /\ origin[r] = "https://evil.example"
        /\ headers[r].allowOrigin = "null"

\* C20: a request to a store endpoint that finds SUPABASE_URL or
\* SUPABASE_ANON_KEY unset returns 200 with ok:false and code
\* SUPABASE_NOT_CONFIGURED in its first turn, whatever it carries, and no call
\* goes to the store.
C20_StoreSoftError ==
    [][\A r \in Reqs :
         (pc[r] = "idle" /\ kind'[r] = "store" /\ ~(supabaseUrl /\ supabaseKey)) =>
            /\ pc'[r] = "done"
            /\ resp'[r] = [ status |-> 200,
                            body |-> [ok |-> FALSE, code |-> "SUPABASE_NOT_CONFIGURED"] ]
            /\ edge'[r].storeCalls = 0
            /\ edge'[r].route \in StoreGets \cup StorePosts]_vars

\* The URL is set and the key is not: a write to the builder state got the
\* soft error.
C20_Witness ==
    \E r \in Reqs :
        /\ kind[r] = "store" /\ pc[r] = "done" /\ edge[r].route = "builderPost"
        /\ supabaseUrl /\ ~supabaseKey
        /\ resp[r].body.code = "SUPABASE_NOT_CONFIGURED" /\ edge[r].storeCalls = 0

(***************************************************************************)
(* Termination of the relay.                                               *)
(***************************************************************************)
\* C21 as written: a list-models call or a chat call that has issued its
\* outbound request returns a response in the end, whether the provider
\* answers or not.
C21_HardTimeout ==
    \A r \in Reqs : (pc[r] \in {"m_fetch", "c_fetch"}) ~> (pc[r] = "done")

\* A chat call has been ended by its deadline while a list-models call that
\* started no later still waits for the provider.
C21_Witness ==
    \E r, q \in Reqs :
        /\ kind[r] = "models" /\ pc[r] = "m_fetch"
        /\ IsChat(q) /\ pc[q] = "done" /\ chat[q].timer = "fired"
        /\ resp[q] = ErrorResp(504, "upstream timeout")
        /\ sampled[r] <= chat[q].armedAt

(***************************************************************************)
(* Properties of the models cache over time and under concurrent calls.    *)
(***************************************************************************)
\* The ttl of the claim: the configured number, 300000 when none is set.
ConfiguredTtl == IF envTtl = JsUndefined THEN 300000 ELSE envTtl.num

\* C22: a credentialed list-models call returns the cached snapshot exactly
\* when the cache holds data younger than ttl, and goes upstream otherwise, at
\* an age of exactly ttl too; the cache changes in no step but the one in which
\* a call returns cached=false, so neither the passing of time nor a call that
\* finds the snapshot expired clears or alters it.
C22_LazyExpiry ==
    [][/\ \A r \in Reqs :
            (StartsModels(r) /\ credential) =>
                IF modelsCache.data # JsNull /\ now - modelsCache.at < ConfiguredTtl
                THEN /\ pc'[r] = "done" /\ outbound'[r] = outbound[r]
                     /\ resp'[r] = [ status |-> 200,
                                     body |-> [ models |-> modelsCache.data.items,
                                                cached |-> TRUE ] ]
                ELSE pc'[r] = "m_fetch" /\ outbound'[r] = outbound[r] + 1
       /\ modelsCache' # modelsCache =>
            \E r \in Reqs :
                /\ pc[r] = "m_json" /\ pc'[r] = "done"
                /\ Has(resp'[r].body, "cached") /\ ~resp'[r].body.cached
                /\ modelsCache' = [at |-> sampled[r], data |-> JsArray(resp'[r].body.models)]]_vars

\* A call that started when the snapshot's age was exactly the ttl went
\* upstream, and the snapshot is still in place.
C22_Witness ==
    \E r \in Reqs :
        /\ kind[r] = "models" /\ pc[r] = "m_fetch"
        /\ modelsCache.data # JsNull /\ ConfiguredTtl > 0
        /\ sampled[r] - modelsCache.at = ConfiguredTtl

\* C26 as written: capturedAt never decreases.
C26_Monotonic == [][modelsCache'.at >= modelsCache.at]_vars

\* C26, amended: capturedAt is the time its writer sampled when it started,
\* never a later one and never in the future; it decreases exactly when the
\* writer started before the writer of the snapshot it replaces.
C26_WriterStartTime ==
    [][/\ modelsCache'.at <= now'
       /\ modelsCache'.at # modelsCache.at =>
            \E r \in Reqs :
                /\ pc[r] = "m_json" /\ pc'[r] = "done"
                /\ modelsCache'.at = sampled[r]
                /\ modelsCache'.at < modelsCache.at <=> sampled[r] < modelsCache.at]_vars

\* Two calls returned cached=false, and the cache holds the time of the one
\* that started earlier: it wrote last.
C26_Witness ==
    \E i, j \in Reqs :
        /\ IsModelsDone(i) /\ IsModelsDone(j)
        /\ Has(resp[i].body, "cached") /\ ~resp[i].body.cached
        /\ Has(resp[j].body, "cached") /\ ~resp[j].body.cached
        /\ sampled[i] < sampled[j]
        /\ modelsCache.at = sampled[i]

\* C27: a response with cached=true returned by a call that sampled t carries
\* the list of a snapshot whose capturedAt is later than t - ttl, and a
\* snapshot is written -- its list has been received from the provider -- at
\* a time that is not earlier than the capturedAt it is given; so the list was
\* received later than t - ttl.
C27_StalenessBound ==
    [][/\ \A r \in Reqs :
            ( /\ StartsModels(r) /\ pc'[r] = "done"
              /\ Has(resp'[r].body, "cached") /\ resp'[r].body.cached ) =>
                /\ sampled'[r] = now
                /\ resp'[r].body.models = modelsCache.data.items
                /\ modelsCache.at > sampled'[r] - ConfiguredTtl
       /\ modelsCache' # modelsCache =>
            /\ now >= modelsCache'.at
            /\ \E r \in Reqs : pc[r] = "m_json" /\ pc'[r] = "done"
                                /\ modelsCache'.data.items = ProjectModels(res[r].data)]_vars

\* A call returned cached=true from a snapshot that was stamped before the
\* call started and is younger than the ttl.
C27_Witness ==
    \E r \in Reqs :
        /\ IsModelsDone(r) /\ Flag(r, "cached")
        /\ sampled[r] > modelsCache.at
        /\ sampled[r] - modelsCache.at < ConfiguredTtl
        /\ resp[r].body.models = modelsCache.data.items

\* C28: a 200 response of list-models has the models and either cached alone
\* (true or false), or fallback=true alone, or fallback=true and degraded=true;
\* cached=false is returned in the step in which the call stores the list it
\* returns, under its own sampled time.
C28_FlagExclusivity ==
    [][\A r \in Reqs :
         (kind'[r] = "models" /\ pc[r] # "done" /\ pc'[r] = "done" /\ resp'[r].status = 200) =>
            LET body == resp'[r].body IN
            /\ \/ DOMAIN body = {"models", "cached"} /\ body.cached \in BOOLEAN
               \/ DOMAIN body = {"models", "fallback"} /\ body.fallback = TRUE
               \/ /\ DOMAIN body = {"models", "fallback", "degraded"}
                  /\ body.fallback = TRUE /\ body.degraded = TRUE
            /\ (Has(body, "cached") /\ ~body.cached) =>
                    /\ pc[r] = "m_json"
                    /\ modelsCache' = [at |-> sampled[r], data |-> JsArray(body.models)]
            /\ (Has(body, "cached") /\ body.cached) =>
                    modelsCache' = modelsCache /\ body.models = modelsCache.data.items]_vars

\* Of two calls one returned cached=false and its list is the one in the
\* cache, the other returned the degraded fallback.
C28_Witness ==
    \E i, j \in Reqs :
        /\ IsModelsDone(i) /\ Has(resp[i].body, "cached") /\ ~resp[i].body.cached
        /\ modelsCache = [at |-> sampled[i], data |-> JsArray(resp[i].body.models)]
        /\ IsModelsDone(j) /\ Flag(j, "degraded") /\ Flag(j, "fallback")

\* The list-models call r found no fresh snapshot when it started.
Missed(r) ==
    /\ kind[r] = "models"
    /\ \/ pc[r] \in {"m_fetch", "m_json"}
       \/ pc[r] = "done" /\ resp[r].status = 200 /\ ~Flag(r, "cached")

\* C29: every credentialed list-models call that finds no fresh snapshot when
\* it starts issues one outbound request, whatever other calls are in flight,
\* and a call that finds a fresh one issues none, so the requests issued are as
\* many as the calls that missed; a call that stores a list replaces the
\* snapshot with the list it returns, so the cache holds the list of the call
\* that wrote last.
C29_NoCoalescing ==
    [][/\ \A r \in Reqs : outbound'[r] = IF Missed(r)' THEN 1 ELSE 0
       /\ Cardinality({r \in Reqs : outbound'[r] = 1}) = Cardinality({r \in Reqs : Missed(r)'})
       /\ \A r \in Reqs :
            (StartsModels(r) /\ credential) =>
                Missed(r)' <=> ~(modelsCache.data # JsNull
                                    /\ now - modelsCache.at < ConfiguredTtl)
       /\ \A r \in Reqs :
            (pc[r] = "m_json" /\ pc'[r] = "done" /\ Has(resp'[r].body, "cached")) =>
                modelsCache'.data = JsArray(resp'[r].body.models)]_vars

\* Every call of the run started on an empty cache while the others were in
\* flight, each issued its own request, and the cache holds the list of the
\* first one, which wrote last.
C29_Witness ==
    /\ \A r \in Reqs : IsModelsDone(r) /\ outbound[r] = 1
                         /\ Has(resp[r].body, "cached") /\ ~resp[r].body.cached
    /\ \A r \in Reqs : sampled[r] = 0
    /\ resp[1].body.models # resp[NumReqs].body.models
    /\ modelsCache.data = JsArray(resp[1].body.models)

(***************************************************************************)
(* Properties of the chat relay's deadline.                                *)
(***************************************************************************)
\* C23: the timer is armed in the turn that issues the outbound call and is
\* armed exactly while that call is pending; it has fired only on a call that
\* was pending, which then returned the 504 and has no stream; once the
\* provider has answered, the timer is cleared for good, and a stream that has
\* begun stays the call's response whatever the clock shows: it is open, or
\* closed after the provider ended it and the client read all of it, or
\* cancelled by the client's disconnect, which drops what was left to read.
C23_DeadlineScope ==
    \A r \in Reqs :
        IsChat(r) =>
            /\ chat[r].timer = "armed" <=> pc[r] = "c_fetch"
            /\ pc[r] = "c_fetch" =>
                    /\ chat[r].fetch = "pending" /\ outbound[r] = 1
                    /\ chat[r].armedAt <= now
                    /\ now - chat[r].armedAt <= CHAT_TIMEOUT_MS
            /\ chat[r].timer = "fired" =>
                    /\ chat[r].fetch = "aborted" /\ chat[r].stream = "none"
                    /\ pc[r] = "done" /\ resp[r] = ErrorResp(504, "upstream timeout")
            /\ chat[r].fetch = "resolved" => chat[r].timer = "cleared"
            /\ chat[r].stream # "none" =>
                    /\ chat[r].timer = "cleared" /\ chat[r].fetch = "resolved"
                    /\ pc[r] = "done" /\ resp[r] = StreamResp
            /\ chat[r].stream = "closed" =>
                    chat[r].ended /\ chat[r].pipe = << >> /\ chat[r].client = chat[r].source
            /\ chat[r].stream = "cancelled" => chat[r].pipe = << >>

\* A stream that has begun is still open when the deadline of its call has
\* passed.
C23_Witness ==
    \E r \in Reqs :
        /\ IsChat(r) /\ chat[r].stream = "open" /\ Len(chat[r].client) > 0
        /\ chat[r].timer = "cleared"
        /\ now - chat[r].armedAt >= CHAT_TIMEOUT_MS

\* C30: a chat call that armed its timer returns one response -- the stream,
\* the upstream error, 504 upstream timeout or 502 network failure -- and
\* returns it once; when it has returned, its timer is cleared, or has fired
\* and produced the 504, and neither the timer nor the response changes
\* afterwards, whenever the deadline comes.
C30_SingleOutcome ==
    [][\A r \in Reqs :
         (IsChat(r) /\ chat[r].timer # "unset") =>
            /\ pc[r] = "done" =>
                /\ \/ resp[r] = StreamResp /\ chat[r].fetch = "resolved"
                   \/ /\ resp[r] = [ status |-> IF chat[r].status = 0 THEN 502
                                                ELSE chat[r].status,
                                     body |-> [ error |-> "upstream error",
                                                status |-> chat[r].status ] ]
                      /\ chat[r].fetch = "resolved"
                   \/ resp[r] = ErrorResp(504, "upstream timeout")
                   \/ resp[r] = ErrorResp(502, "network failure")
                /\ chat[r].timer \in {"cleared", "fired"}
                /\ chat[r].timer = "fired" <=>
                        (resp[r] = ErrorResp(504, "upstream timeout")
                            /\ chat[r].fetch = "aborted")
                /\ pc'[r] = "done" /\ resp'[r] = resp[r]
                /\ chat'[r].timer = chat[r].timer
            /\ pc[r] # "done" =>
                    (chat[r].timer = "armed" <=> pc[r] = "c_fetch")]_vars

\* The deadline of a call has passed after the call returned the provider's
\* 429, and its timer is cleared.
C30_Witness ==
    \E r \in Reqs :
        /\ IsChat(r) /\ pc[r] = "done" /\ chat[r].status = 429
        /\ resp[r].body.error = "upstream error"
        /\ chat[r].timer = "cleared"
        /\ now - chat[r].armedAt >= CHAT_TIMEOUT_MS

(***************************************************************************)
(* Properties of the requests the store and the trigger accept.            *)
(***************************************************************************)
\* The write handler of task r, with the store configured, has looked at a
\* body that is JSON.
WriteChecked(r) ==
    /\ kind[r] = "store" /\ edge[r].route \in StorePosts /\ storeConfigured
    /\ pc[r] \notin {"idle", "s_json"}
    /\ edge[r].request.parse = "ok"

\* C24 as written: a write to the builder state, the memory or the analytics
\* events whose key is a string of white space only, or whose payload is
\* absent, is answered with a 4xx and no call to the store; every other write
\* goes to the store, with a non-empty key -- the handler's default when the
\* request names none -- and the payload the request held.
C24_WriteValidation ==
    \A r \in Reqs :
        WriteChecked(r) =>
            IF \/ edge[r].request.value.key.type = "string"
                    /\ Blank(edge[r].request.value.key)
               \/ edge[r].request.value.payload = "absent"
            THEN /\ edge[r].storeCalls = 0
                 /\ pc[r] = "done"
                 /\ resp[r].status >= 400 /\ resp[r].status <= 499
            ELSE /\ edge[r].storeCalls = 1
                 /\ edge[r].storePayload.key # EmptyString
                 /\ edge[r].storePayload.value = "present"

\* A memory write with a blank userId and no memory went to the store with an
\* empty key and an empty object, and was answered ok.
C24_Witness ==
    \E r \in Reqs :
        /\ WriteChecked(r) /\ edge[r].route = "memoryPost" /\ pc[r] = "done"
        /\ edge[r].request = StoreRequest(Repeat(" ", 2), "absent")
        /\ edge[r].storeCalls = 1
        /\ edge[r].storePayload = [key |-> EmptyString, value |-> "{}"]
        /\ resp[r].status = 200 /\ resp[r].body.ok

\* The trigger of task r has looked at its body.
TriggerChecked(r) == kind[r] = "trigger" /\ pc[r] \notin {"idle", "t_json"}

\* C25: the trigger refuses a body that is no JSON and a text that is blank,
\* both with a 400 and with or without credential; any other text is refused
\* only for a missing credential and otherwise goes to the provider whole,
\* whatever its length, also when the chat relay's check refuses a prompt of
\* that length.
C25_NoPromptCap ==
    \A r \in Reqs :
        TriggerChecked(r) =>
            LET body == edge[r].request IN
            IF body.parse = "throws"
            THEN /\ pc[r] = "done" /\ outbound[r] = 0
                 /\ resp[r] = [status |-> 400, body |-> [ok |-> FALSE, error |-> "invalid json"]]
            ELSE IF Blank(body.value.text)
            THEN /\ pc[r] = "done" /\ outbound[r] = 0
                 /\ resp[r] = [status |-> 400, body |-> [ok |-> FALSE, error |-> "text required"]]
            ELSE IF ~credential
            THEN /\ pc[r] = "done" /\ outbound[r] = 0
                 /\ resp[r].status = 500
            ELSE /\ outbound[r] = 1
                 /\ edge[r].payload.user = Trim(body.value.text)
                 /\ (pc[r] = "done" /\ Has(resp[r].body, "error")) =>
                        resp[r].body.error \notin {"text required", "invalid json"}

\* A text of 8001 characters, which the chat relay's check refuses as a
\* prompt, went to the provider and was answered.
C25_Witness ==
    \E r \in Reqs :
        /\ TriggerChecked(r) /\ pc[r] = "done" /\ outbound[r] = 1
        /\ StrLength(edge[r].payload.user) = MAX_PROMPT_CHARS + 1
        /\ Validate(BodyOf(Chars(<< "m" >>), edge[r].payload.user, JsUndefined)) # "ok"
        /\ resp[r] = [status |-> 200, body |-> [ok |-> TRUE, output |-> "hello"]]

====
